---------------------------- MODULE Spec2Model ----------------------------
(***************************************************************************)
(* A model of the thermal control plane of HakoFoundry:                    *)
(*   - interpolate_fan_speed and the profile demand (fan_profile_manager,  *)
(*     fan_control_service),                                               *)
(*   - the Powerboard serial link (powerboard.py),                         *)
(*   - the FanControlService reconciliation tick and update requests.      *)
(*                                                                         *)
(* Units.  Fan speeds of the curve model (y values, evaluation results,    *)
(* demands) are integers counting hundredths of a percent, so that         *)
(* Python's round(v, 1) is a real rounding step: 5000 is 50 %.             *)
(* Temperatures and the x values of curve points are integers in one       *)
(* common unit.  PWM percentages on the boards and wall targets are        *)
(* integers in percent, as Powerboard._validate_pwm_percentages requires.  *)
(***************************************************************************)
EXTENDS Integers, Sequences, FiniteSets, TLC

VARIABLES
    \* ---- interpolate_fan_speed(curve_data, temperature) ----
    curve_data,     \* the argument: a sequence of points [x |-> , y |-> ]
    temperature,    \* the argument: the temperature
    result,         \* << >> before the call returns, then <<value>>
    \* ---- _calculate_max_speed_from_profile(profile) ----
    profile,        \* the argument: a sequence of curves [sensor, data]
    readings,       \* sensor name -> temperature or None (unreadable)
    demand,         \* << >> before the call returns, then <<value>>
    \* ---- Powerboard (one object per board location) ----
    present,        \* the keys of globals.powerboardDict
    firmware,       \* board -> Powerboard._firmware_ver
    sem,            \* board -> value of Powerboard.semaphore
    port,           \* board -> the thread whose command awaits its reply
    wire,           \* board -> the last command line written to the port
    overlap,        \* history: a command was written while another
                    \*   thread's command still awaited its reply
    running,        \* board -> Powerboard._running_fan_pwm
    saved,          \* board -> Powerboard._saved_fan_pwm
    current,        \* board -> Powerboard._current_fan_pwm
    rpm,            \* board -> Powerboard._current_fan_rpm
    watt,           \* board -> Powerboard._current_wattage
    call,           \* thread -> the Powerboard method it is executing
    \* ---- FanControlService ----
    speed,          \* wall -> FanWall.current_speed (the wall's target; the
                    \*   overview sliders are bound to it)
    manual,         \* wall -> FanWall.manual
    assigned,       \* wall -> FanWall.assigned_profile ("" for None)
    store,          \* profile name -> profile (globals.fan_profile_service)
    updSem,         \* board -> update_pwm_semaphore / update_aux_pwm_semaphore
    flags,          \* updating_sliders_programmatically,
                    \*   automatic_control_enabled, fan_wall_service_active
    loop,           \* "free", or the task whose synchronous code blocks
                    \*   the event loop
    pc,             \* task -> where the coroutine stands
    loc,            \* task -> its local variables
    budget,         \* how many more environment events the run may take
    hist,           \* history variables the claims are stated with
    \* ---- SensorManagementService (temperature_sensor_service.py) ----
    drivesList,     \* globals.drivesList: drive hash -> Drive.temp
    hwmon,          \* hardware path -> content of the sensor file
    sensor_groups,  \* group name -> sensor name -> TemperatureSensor
    drive_monitors, \* the dict curve id -> DriveTemperatureMonitor, as the
                    \*   sequence of its values in insertion order
    tempFile,       \* config/temperature_sensors_config.json
    looked,         \* history: the last call of the sensor service
    \* ---- FanControlBackend (fan_profile_manager.py) ----
    nextId,         \* how many uuid4 identifiers have been drawn
    last,           \* history: the last call of the backend and its result
    profFile,       \* config/fan_profiles_config.json
    \* ---- the other configuration files ----
    fanFile,        \* config/fan_control_config.json
    layoutFile,     \* config/layout_config.json
    layout          \* the settings the Chassis holds in memory

curveVars == <<curve_data, temperature, result>>
demandVars == <<profile, readings, demand>>
cacheVars == <<running, saved, current, rpm, watt>>
boardVars == <<present, firmware, sem, port, wire, overlap, cacheVars, call>>
wallVars == <<speed, manual, assigned>>
serviceVars == <<wallVars, store, updSem, flags, loop, pc, loc, budget, hist>>
sensorVars ==
    <<drivesList, hwmon, sensor_groups, drive_monitors, tempFile, looked>>
backendVars == <<nextId, last, profFile>>
fileVars == <<fanFile, layoutFile, layout>>
restVars == <<sensorVars, backendVars, fileVars>>
vars == <<curveVars, demandVars, boardVars, serviceVars, restVars>>

-----------------------------------------------------------------------------
(* Values *)

\* Python's None where a number is expected.
None == -1
Abs(n) == IF n < 0 THEN 0 - n ELSE n
Min2(a, b) == IF a <= b THEN a ELSE b
Max2(a, b) == IF a >= b THEN a ELSE b

\* The step of round(v, 1), 0.1 percent, in hundredths of a percent.
Tenth == 10

-----------------------------------------------------------------------------
(* Bounds of the checked instances *)

\* Longest curve (number of points) evaluated.
MaxPoints == 3
\* Largest number of curves in a profile.
MaxCurves == 2
\* Events of a run of the service: timer ticks, update requests, slider
\* moves, set_fan_speed calls, automatic updates, failing serial replies,
\* mode and flag changes.
MaxTicks == 2
MaxRequests == 3
MaxMoves == 1
MaxSets == 1
MaxAutos == 1
MaxFails == 1
MaxSwitches == 1
\* Largest number of profiles in the store, and of identifiers drawn.
MaxProfiles == 2
MaxIds == 6

\* x values and temperatures of the checked curves.
XSet == {30, 40, 50}
TempSet == {25, 30, 33, 35, 40, 45, 50, 55}
\* y values (hundredths of a percent): multiples of 0.1 % and values between.
YSet == {2000, 5004, 5555, 10000}

PointSet == [x : XSet, y : YSet]

Pt(px, py) == [x |-> px, y |-> py]

\* Sensor references of the checked profiles; "" is a curve without sensor
\* (None and the empty string are both false in Python).
NoSensor == ""
SensorSet == {"CPU: Core", "GPU: Edge"}
\* Curve data of the checked profiles (non-empty, y within 0..100 %).
DemandCurves ==
    { <<Pt(30, 2000), Pt(50, 10000)>>,
      <<Pt(30, 5555), Pt(40, 5004), Pt(50, 8000)>>,
      <<Pt(40, 6000)>>,
      <<Pt(50, 4000), Pt(30, 2000)>> }
DemandTemps == {33, 45}

SeqsUpTo(S, n) == UNION {[1..k -> S] : k \in 0..n}

-----------------------------------------------------------------------------
(* interpolate_fan_speed *)

WellFormed(c) ==
    /\ Len(c) >= 2
    /\ \A i \in 1..(Len(c) - 1) : c[i].x < c[i + 1].x

\* sorted(curve_data, key=lambda p: p['x']): a stable sort by x.
InsertByX(sorted, p) ==
    LET k == Cardinality({i \in 1..Len(sorted) : sorted[i].x <= p.x})
    IN  SubSeq(sorted, 1, k) \o <<p>> \o SubSeq(sorted, k + 1, Len(sorted))

RECURSIVE SortByX(_)
SortByX(s) ==
    IF s = <<>> THEN <<>>
    ELSE InsertByX(SortByX(SubSeq(s, 1, Len(s) - 1)), s[Len(s)])

\* round(num / den, 1) for a value num/den >= 0 given in hundredths of a
\* percent, den > 0.  The result is a multiple of Tenth.  Python rounds the
\* binary float: where the exact value lies halfway between two multiples
\* of 0.1 the float may fall on either side, so both neighbours are
\* possible outcomes.
RoundTenth(num, den) ==
    LET k == num \div (Tenth * den)
    IN  {Tenth * j : j \in {m \in {k, k + 1} :
                            2 * Abs(num - Tenth * m * den) <= Tenth * den}}

\* A rounding to whole percent instead of to 0.1 percent.
RoundSpeedWhole(num, den) ==
    LET k == num \div (100 * den)
    IN  {100 * j : j \in {m \in {k, k + 1} :
                            2 * Abs(num - 100 * m * den) <= 100 * den}}

\* The rounding step of the interpolation, round(interpolated_speed, 1).
RoundSpeed(num, den) == RoundTenth(num, den)

\* The set of values interpolate_fan_speed(curve_data, temperature) may
\* return (a singleton except at an exact rounding tie).
interpolate_fan_speed(c, t) ==
    IF c = <<>> THEN {None}
    ELSE
      LET sorted_data == SortByX(c)
          n == Len(sorted_data)
      IN  IF t <= sorted_data[1].x THEN {sorted_data[1].y}
          ELSE IF t >= sorted_data[n].x THEN {sorted_data[n].y}
          ELSE
            LET hits == {i \in 1..(n - 1) :
                           sorted_data[i].x <= t /\ t <= sorted_data[i + 1].x}
            IN  IF hits = {} THEN {None}
                ELSE
                  LET i  == CHOOSE j \in hits : \A h \in hits : j <= h
                      x1 == sorted_data[i].x
                      y1 == sorted_data[i].y
                      x2 == sorted_data[i + 1].x
                      y2 == sorted_data[i + 1].y
                  IN  IF x2 = x1 THEN {y1}
                      ELSE RoundSpeed(y1 * (x2 - x1) + (y2 - y1) * (t - x1),
                                      x2 - x1)

InitCurve ==
    /\ curve_data \in SeqsUpTo(PointSet, MaxPoints)
    /\ temperature \in TempSet
    /\ result = <<>>

\* One call of interpolate_fan_speed on the chosen arguments.
Evaluate ==
    /\ result = <<>>
    /\ \E r \in interpolate_fan_speed(curve_data, temperature) :
          result' = <<r>>
    /\ UNCHANGED <<curve_data, temperature>>

-----------------------------------------------------------------------------
(* _calculate_max_speed_from_profile *)

\* The safe default demand, 50 %.
SafeDefault == 5000

\* FanControlBackend.get_sensor_temperature: the current reading of the
\* sensor, None when it is unavailable.
get_sensor_temperature(rd, sensor) == rd[sensor]

\* The loop over the curves of a profile, from curve i on: the set of
\* possible final <<max_speed, curves_with_sensors>>.
RECURSIVE MaxLoop(_, _, _, _, _)
MaxLoop(p, rd, i, max_speed, curves_with_sensors) ==
    IF i > Len(p) THEN {<<max_speed, curves_with_sensors>>}
    ELSE IF p[i].sensor = NoSensor
         THEN MaxLoop(p, rd, i + 1, max_speed, curves_with_sensors)
    ELSE LET current_temp == get_sensor_temperature(rd, p[i].sensor)
         IN  IF current_temp = None
             THEN MaxLoop(p, rd, i + 1, max_speed, curves_with_sensors)
             ELSE UNION { IF curve_speed = None
                          THEN MaxLoop(p, rd, i + 1, max_speed,
                                       curves_with_sensors)
                          ELSE MaxLoop(p, rd, i + 1,
                                       Max2(max_speed, curve_speed),
                                       curves_with_sensors + 1)
                          : curve_speed \in
                              interpolate_fan_speed(p[i].data, current_temp) }

\* A loop whose running maximum starts at the safe default instead of 0.
CalcMaxFromDefault(p, rd) ==
    IF p = <<>> THEN {SafeDefault}
    ELSE { IF r[2] = 0 THEN SafeDefault ELSE r[1] :
             r \in MaxLoop(p, rd, 1, SafeDefault, 0) }

\* The set of values _calculate_max_speed_from_profile(profile) may return.
calculate_max_speed_from_profile(p, rd) ==
    IF p = <<>> THEN {SafeDefault}
    ELSE { IF r[2] = 0 THEN SafeDefault ELSE r[1] :
             r \in MaxLoop(p, rd, 1, 0, 0) }

InitDemand ==
    /\ profile \in SeqsUpTo([sensor : SensorSet \cup {NoSensor},
                              data : DemandCurves], MaxCurves)
    /\ readings \in [SensorSet -> DemandTemps \cup {None}]
    /\ demand = <<>>

\* One call of _calculate_max_speed_from_profile on the chosen profile.
Calculate ==
    /\ demand = <<>>
    /\ \E d \in calculate_max_speed_from_profile(profile, readings) :
          demand' = <<d>>
    /\ UNCHANGED <<profile, readings>>

-----------------------------------------------------------------------------
(* Powerboard: the serial link *)

Boards == {1, 2}

\* Threads that call the public methods of one Powerboard directly.
LinkThreads == {"t1", "t2"}
\* The tasks of FanControlService.
ServiceTasks == {"tick", "req1", "req2", "auto", "set"}
Threads == LinkThreads \cup ServiceTasks

\* Firmware versions of the checked boards ("2.2" inverts the U: arguments).
FirmwareSet == {"2.1", "2.2"}
\* PWM triples (row1, row2, row3) a board reports at construction.
InitialPwm == {<<20, 60, 40>>, <<40, 40, 40>>}
\* Replies to T: (tach counts) and to W: (shunt readings), and what a
\* command gets back: a well-formed line, no line at all (timeout or serial
\* error) or a line that does not parse.
TachReplies == {40, 50}
WattReplies == {7, 9}
Outcomes == {"ok", "empty", "garbage"}

\* Powerboard.COMMANDS
COMMANDS == [get_pwm |-> "P", set_fan_speed |-> "F", update_fan_speed |-> "U",
             get_metadata |-> "V", get_tach |-> "T", get_wattage |-> "W",
             get_jumper |-> "J"]

NoCall == [method |-> "none", b |-> 0, cmd |-> "", args |-> <<>>,
           stage |-> "none"]

\* _validate_pwm_percentages: every value an integer within 0..100.
validate_pwm_percentages(t) == \A i \in 1..3 : t[i] \in 0..100

\* The argument string of F: the rows in hardware order.
SetParams(t) == <<t[2], t[3], t[1]>>
\* An argument string of U: that no firmware inverts.
UpdateParamsPlain(fw, t) == <<t[2], t[3], t[1]>>

\* The argument string of U:, inverted for firmware 2.2.
UpdateParams(fw, t) ==
    IF fw = "2.2" THEN <<100 - t[2], 100 - t[3], 100 - t[1]>>
    ELSE <<t[2], t[3], t[1]>>

\* The first command of a method and the line it writes.
FirstCmd(method) ==
    CASE method = "set_fan_speed" -> COMMANDS.set_fan_speed
      [] method = "update_fan_speed" -> COMMANDS.update_fan_speed
      [] method = "get_board_metadata" -> COMMANDS.get_metadata
      [] method = "update_powerboard_state" -> COMMANDS.get_tach
      [] method = "get_jumper_state" -> COMMANDS.get_jumper
      [] OTHER -> ""

Line(c) ==
    CASE c.cmd = "F" -> SetParams(c.args)
      [] c.cmd = "U" -> UpdateParams(firmware[c.b], c.args)
      [] OTHER -> <<>>

\* A thread starts executing a Powerboard method: the record of the call.
\* set_fan_speed and update_fan_speed validate their arguments first and
\* raise ValueError, before touching the semaphore, when they are invalid.
StartCall(method, b, args) ==
    IF method \in {"set_fan_speed", "update_fan_speed"}
       /\ ~validate_pwm_percentages(args)
    THEN [method |-> method, b |-> b, cmd |-> "", args |-> args,
          stage |-> "err"]
    ELSE [method |-> method, b |-> b, cmd |-> FirstCmd(method),
          args |-> args, stage |-> "enter"]

\* A method that writes its command without taking the semaphore.
CanEnterUnlocked(t) == call[t].stage = "enter"

\* `with self.semaphore:` (or semaphore.acquire()): the thread may pass when
\* the semaphore's value is positive.
CanEnter(t) == call[t].stage = "enter" /\ sem[call[t].b] > 0

\* The thread takes the semaphore.  For the bare semaphore.acquire that
\* FanControlService runs on a worker thread the call is then complete.
Acquire(t) ==
    /\ CanEnter(t)
    /\ sem' = [sem EXCEPT ![call[t].b] = @ - 1]
    /\ call' = [call EXCEPT ![t].stage =
                   IF call[t].method = "acquire" THEN "ok" ELSE "locked"]
    /\ UNCHANGED <<present, firmware, port, wire, overlap, cacheVars>>

\* _send_command, first half: serial write of the command line.
Write(t) ==
    /\ call[t].stage = "locked"
    /\ LET b == call[t].b IN
       /\ overlap' = (overlap \/ port[b] # "idle")
       /\ port' = [port EXCEPT ![b] = t]
       /\ wire' = [wire EXCEPT ![b] =
                      [cmd |-> call[t].cmd, params |-> Line(call[t]),
                       by |-> t]]
    /\ call' = [call EXCEPT ![t].stage = "sent"]
    /\ UNCHANGED <<present, firmware, sem, cacheVars>>

\* Whether the reply lets the command succeed: F:, U: only need a
\* non-empty line, the others parse it.
Succeeds(cmd, outcome) ==
    IF cmd \in {"F", "U"} THEN outcome # "empty" ELSE outcome = "ok"

\* _send_command, second half (readline), the release of the semaphore at
\* the end of the with block, and what the method does with the reply.
Read(t, outcome, reading) ==
    /\ call[t].stage = "sent"
    /\ LET b == call[t].b
           c == call[t]
           good == Succeeds(c.cmd, outcome)
       IN
       /\ port' = [port EXCEPT ![b] = IF port[b] = t THEN "idle" ELSE @]
       /\ sem' = [sem EXCEPT ![b] = @ + 1]
       /\ current' = IF good /\ c.cmd = "F"
                     THEN [current EXCEPT ![b] = c.args] ELSE current
       /\ saved' = IF good /\ c.cmd = "F"
                   THEN [saved EXCEPT ![b] = c.args] ELSE saved
       /\ running' = IF good /\ c.cmd = "U"
                     THEN [running EXCEPT ![b] = c.args] ELSE running
       /\ rpm' = IF good /\ c.cmd = "T"
                 THEN [rpm EXCEPT ![b] = reading * 30] ELSE rpm
       /\ watt' = IF good /\ c.cmd = "W"
                  THEN [watt EXCEPT ![b] = reading] ELSE watt
       /\ call' = [call EXCEPT ![t] =
                     IF ~good THEN [c EXCEPT !.stage = "err"]
                     ELSE IF c.cmd = "T"
                          \* update_powerboard_state: _update_power_usage next
                          THEN [c EXCEPT !.cmd = COMMANDS.get_wattage,
                                         !.stage = "enter"]
                          ELSE [c EXCEPT !.stage = "ok"]]
    /\ UNCHANGED <<present, firmware, wire, overlap>>

ReadAny(t) ==
    \E outcome \in Outcomes :
        \E reading \in (IF call[t].cmd = "T" THEN TachReplies
                        ELSE IF call[t].cmd = "W" THEN WattReplies ELSE {0}) :
            Read(t, outcome, reading)

\* A thread calls a public method of the Powerboard at location 1.
DirectCall(t, method, args) ==
    /\ call[t].stage \in {"none", "ok", "err"}
    /\ call' = [call EXCEPT ![t] = StartCall(method, 1, args)]
    /\ UNCHANGED <<present, firmware, sem, port, wire, overlap, cacheVars>>

\* set_fan_speed(row1, row2, row3) or update_fan_speed(row1, row2, row3).
CallWithRows(t) ==
    \E m \in {"set_fan_speed", "update_fan_speed"} :
        \E a \in InitialPwm \cup {<<20, 60, 101>>} : DirectCall(t, m, a)

\* get_board_metadata(), update_powerboard_state() or get_jumper_state().
CallWithoutArgs(t) ==
    \E m \in {"get_board_metadata", "update_powerboard_state",
               "get_jumper_state"} : DirectCall(t, m, <<>>)

\* The state of the boards once the Powerboard objects of the boards in P
\* are constructed (__init__ ends with update_powerboard_state, whose last
\* command is W:).  The entries of an absent board are never read.
InitBoards(P) ==
    /\ present = P
    /\ firmware \in [Boards -> FirmwareSet]
    /\ \A b \in Boards \ P : firmware[b] = "2.1"
    /\ sem = [b \in Boards |-> 1]
    /\ port = [b \in Boards |-> "idle"]
    /\ wire = [b \in Boards |-> [cmd |-> "W", params |-> <<>>, by |-> "init"]]
    /\ overlap = FALSE
    /\ current \in [Boards -> InitialPwm]
    /\ \A b \in Boards \ P : current[b] = <<40, 40, 40>>
    /\ saved = current
    /\ running = current
    /\ rpm = [b \in Boards |-> 30 * 40]
    /\ watt = [b \in Boards |-> 7]
    /\ call = [t \in Threads |-> NoCall]

-----------------------------------------------------------------------------
(* Powerboard: the wattage calculation of hardware 2.2                     *)
(*                                                                         *)
(* The analog readings of the checked replies are multiples of 100, given  *)
(* as their hundreds, so that the regression is computed exactly with      *)
(* integers: a wattage is a number of whole watts and a rest counted in    *)
(* 1e-8 W.                                                                 *)

\* Powerboard.TARGET_VOLTAGE
TARGET_VOLTAGE == 12

\* The coefficients of _calculate_wattage_22, row by row: the constant in
\* 1e-4, the coefficients of r1..r4 in 1e-8, the coefficients of the
\* products r1*r2, r1*r3, r1*r4, r2*r3, r2*r4, r3*r4 in 1e-12.
CoefConst == <<211, -223, -245, -281>>
CoefLinear ==
    << <<106000, -143, -131, -121>>,
       <<-121, 106000, -111, -101>>,
       <<-101, -131, 106000, -91>>,
       <<-81, -111, -121, 106000>> >>
CoefProduct ==
    << <<-1300, -1420, -1610, -111, -123, -145>>,
       <<-1210, -1310, -1430, -121, -133, -155>>,
       <<-1110, -1210, -1310, -131, -143, -165>>,
       <<-1010, -1110, -1210, -141, -153, -175>> >>
ProductPairs == << <<1, 2>>, <<1, 3>>, <<1, 4>>, <<2, 3>>, <<2, 4>>, <<3, 4>> >>

\* The rest of a wattage after whole watts are taken out.
RestUnit == 100000000

\* np.round of whole + rest / RestUnit, a tie going to the even integer.
RoundHalfEven(whole, rest) ==
    LET q == whole + (rest \div RestUnit)
        r == rest % RestUnit
    IN  IF 2 * r < RestUnit THEN q
        ELSE IF 2 * r > RestUnit THEN q + 1
        ELSE IF q % 2 = 0 THEN q ELSE q + 1

\* voltage * (coefficients @ features)[i] for the readings 100 * k[1..4],
\* rounded: the shunt's own reading contributes 12 * 1.06e-3 * 100 W for
\* every hundred, counted in mW; the other terms are counted in 1e-8 W.
RoundedWattage(i, k) ==
    LET own == TARGET_VOLTAGE * (CoefLinear[i][i] \div 1000) * k[i]
        others == 100 * ((CoefLinear[i][1] * (IF i = 1 THEN 0 ELSE k[1]))
                         + (CoefLinear[i][2] * (IF i = 2 THEN 0 ELSE k[2]))
                         + (CoefLinear[i][3] * (IF i = 3 THEN 0 ELSE k[3]))
                         + (CoefLinear[i][4] * (IF i = 4 THEN 0 ELSE k[4])))
        Product(n) ==
            CoefProduct[i][n] * k[ProductPairs[n][1]] * k[ProductPairs[n][2]]
        products == Product(1) + Product(2) + Product(3) + Product(4)
                      + Product(5) + Product(6)
        rest == ((own % 1000) * 100000)
                  + TARGET_VOLTAGE * (CoefConst[i] * 10000 + others + products)
    IN  RoundHalfEven(own \div 1000, rest)

\* MANUAL_OFFSETS.get(active_shunt_index, {}).get(expected_wattage_key,
\* [0, 0, 0, 0]); the shunts count from 1 here.
MANUAL_OFFSETS(shunt, key) ==
    CASE shunt = 1 /\ key \in {108, 120, 132, 168} -> <<1, 0, 0, 0>>
      [] shunt = 1 /\ key \in {144, 156} -> <<13, 0, 0, 0>>
      [] shunt = 2 /\ key \in {24, 36, 48, 60} -> <<0, 1, 0, 0>>
      [] shunt = 2 /\ key \in {72, 84, 96, 108} -> <<0, 1, -1, 0>>
      [] shunt = 2 /\ key \in {120, 132, 144, 156, 168} -> <<0, 1, -2, 0>>
      [] shunt = 3 /\ key \in {24, 36, 48} -> <<0, 0, 1, 0>>
      [] shunt = 3 /\ key \in {60, 72, 84, 96, 108} -> <<0, -1, 1, 0>>
      [] shunt = 3 /\ key \in {120, 132, 156} -> <<0, -2, 1, 0>>
      [] shunt = 3 /\ key = 144 -> <<0, -2, -11, 0>>
      [] shunt = 3 /\ key = 168 -> <<0, -3, 1, 0>>
      [] shunt = 4 /\ key \in {12 * n : n \in 1..14} -> <<0, 0, 0, 1>>
      [] OTHER -> <<0, 0, 0, 0>>

\* int(round(active_wattage / 12.0) * 12): Python's round, a tie going to
\* the even integer.
ExpectedKey(active_wattage) ==
    LET q == active_wattage \div 12
        r == active_wattage % 12
    IN  12 * (IF r < 6 THEN q
              ELSE IF r > 6 THEN q + 1
              ELSE IF q % 2 = 0 THEN q ELSE q + 1)

\* _apply_manual_offsets_22: np.argmax is the first shunt with the largest
\* wattage.
apply_manual_offsets_22(wattages) ==
    LET shunt == CHOOSE i \in 1..4 :
                     /\ \A j \in 1..4 : wattages[j] <= wattages[i]
                     /\ \A j \in 1..(i - 1) : wattages[j] < wattages[i]
        offset == MANUAL_OFFSETS(shunt, ExpectedKey(wattages[shunt]))
    IN  [i \in 1..4 |-> wattages[i] + offset[i]]

\* rounded_wattages of _calculate_wattage_22: rounded, negatives set to 0.
rounded_wattages(k) == [i \in 1..4 |-> Max2(0, RoundedWattage(i, k))]

\* _calculate_wattage_22(r1, r2, r3, r4) for the readings 100 * k[1..4].
calculate_wattage_22(k) == apply_manual_offsets_22(rounded_wattages(k))

\* The hundreds of the analog readings in the checked replies to W:.
AnalogLevels == {0, 1, 47, 94}
AnalogReplies == [1..4 -> AnalogLevels]

\* _update_power_usage on a board of hardware revision 2.2 reads the reply.
ReadPower(t) ==
    /\ call[t].cmd = COMMANDS.get_wattage
    /\ \E k \in AnalogReplies : Read(t, "ok", calculate_wattage_22(k))


-----------------------------------------------------------------------------
(* Powerboard.__init__ *)

PWM_MAX_VALUE == 255

\* _convert_pwm_to_percent: round(pwm_value / 255 * 100).  The quotient is
\* never halfway between two integers (40 * v is even, 51 * (2k + 1) is
\* odd), so the rounding is the nearest integer.
convert_pwm_to_percent(pwm_value) ==
    (200 * pwm_value + PWM_MAX_VALUE) \div (2 * PWM_MAX_VALUE)

\* The triple in the order of the pins.
read_initial_pwm_state_pins(fw, pwm_values) ==
    LET pin(i) == IF fw = "2.3"
                  THEN convert_pwm_to_percent(255 - pwm_values[i])
                  ELSE convert_pwm_to_percent(pwm_values[i])
    IN  <<pin(1), pin(2), pin(3)>>

\* _read_initial_pwm_state: the triple (row1, row2, row3) decoded from the
\* three values of the reply to P:, which firmware 2.3 reports inverted.
read_initial_pwm_state(fw, pwm_values) ==
    LET pin(i) == IF fw = "2.3"
                  THEN convert_pwm_to_percent(255 - pwm_values[i])
                  ELSE convert_pwm_to_percent(pwm_values[i])
    IN  <<pin(3), pin(1), pin(2)>>

\* The attributes of a Powerboard that __init__ has not assigned yet.
Unassigned == <<>>

\* A thread starts Powerboard(com_port) for the board at location b: the
\* semaphore is created and the port opened, get_board_metadata is next.
ConstructStart(t, b) ==
    /\ call[t].stage = "none"
    /\ call' = [call EXCEPT ![t] =
                  [method |-> "__init__", b |-> b,
                   cmd |-> COMMANDS.get_metadata, args |-> <<>>,
                   stage |-> "enter"]]
    /\ UNCHANGED <<present, firmware, sem, port, wire, overlap, cacheVars>>

\* _read_initial_metadata: the reply to V: is split into hardware revision,
\* firmware version and location.  P: is next: _read_initial_pwm_state
\* calls _send_command without taking the semaphore, so the call stands
\* right before its serial write.
ConstructReadMetadata(t, outcome, metadata) ==
    /\ call[t].method = "__init__" /\ call[t].stage = "sent"
    /\ call[t].cmd = COMMANDS.get_metadata
    /\ LET b == call[t].b IN
       /\ port' = [port EXCEPT ![b] = IF port[b] = t THEN "idle" ELSE @]
       /\ sem' = [sem EXCEPT ![b] = @ + 1]
       /\ IF outcome = "ok"
          THEN /\ firmware' = [firmware EXCEPT ![b] = metadata[2]]
               /\ call' = [call EXCEPT ![t].cmd = COMMANDS.get_pwm,
                                       ![t].stage = "locked"]
          ELSE /\ call' = [call EXCEPT ![t].stage = "err"]
               /\ UNCHANGED firmware
    /\ UNCHANGED <<present, wire, overlap, cacheVars>>

\* _read_initial_pwm_state and the start of update_fan_speed on the triple
\* it decoded, which raises ValueError for a value outside 0..100.
ConstructReadPwm(t, outcome, pwm_values) ==
    /\ call[t].method = "__init__" /\ call[t].stage = "sent"
    /\ call[t].cmd = COMMANDS.get_pwm
    /\ LET b == call[t].b
           rows == read_initial_pwm_state(firmware[b], pwm_values)
       IN
       /\ port' = [port EXCEPT ![b] = IF port[b] = t THEN "idle" ELSE @]
       /\ IF outcome = "ok"
          THEN /\ current' = [current EXCEPT ![b] = rows]
               /\ call' = [call EXCEPT ![t] =
                             [StartCall("update_fan_speed", b, rows)
                                EXCEPT !.method = "__init__"]]
          ELSE /\ call' = [call EXCEPT ![t].stage = "err"]
               /\ UNCHANGED current
    /\ UNCHANGED <<present, firmware, sem, wire, overlap, running, saved,
                   rpm, watt>>

\* The end of update_fan_speed and the assignments that follow it in
\* __init__; update_powerboard_state is next.
ConstructReadUpdate(t, outcome) ==
    /\ call[t].method = "__init__" /\ call[t].stage = "sent"
    /\ call[t].cmd = COMMANDS.update_fan_speed
    /\ LET b == call[t].b IN
       /\ port' = [port EXCEPT ![b] = IF port[b] = t THEN "idle" ELSE @]
       /\ sem' = [sem EXCEPT ![b] = @ + 1]
       /\ IF Succeeds(call[t].cmd, outcome)
          THEN /\ rpm' = [rpm EXCEPT ![b] = None]
               /\ watt' = [watt EXCEPT ![b] = None]
               /\ saved' = [saved EXCEPT ![b] = current[b]]
               /\ running' = [running EXCEPT ![b] = current[b]]
               /\ call' = [call EXCEPT ![t].cmd = COMMANDS.get_tach,
                                       ![t].args = <<>>,
                                       ![t].stage = "enter"]
          ELSE /\ call' = [call EXCEPT ![t].stage = "err"]
               /\ UNCHANGED <<rpm, watt, saved, running>>
    /\ UNCHANGED <<present, firmware, wire, overlap, current>>

\* update_powerboard_state at the end of __init__: the replies to T: and W:.
ConstructReadState(t) ==
    /\ call[t].method = "__init__"
    /\ call[t].cmd \in {COMMANDS.get_tach, COMMANDS.get_wattage}
    /\ ReadAny(t)

\* __init__ has returned the object.
Constructed(t) ==
    /\ call[t].method = "__init__" /\ call[t].stage = "ok"
    /\ call[t].cmd = COMMANDS.get_wattage

-----------------------------------------------------------------------------
(* FanControlProfile.get_current_speed *)

\* FanCurve.get_current_speed(backend): None for a curve without sensor or
\* without a reading, else the interpolation at the reading.
curve_get_current_speed(c, rd) ==
    IF c.sensor = NoSensor THEN {None}
    ELSE LET current_temp == get_sensor_temperature(rd, c.sensor)
         IN  IF current_temp = None THEN {None}
             ELSE interpolate_fan_speed(c.data, current_temp)

\* The loop over the curves of the profile, from curve i on: the set of
\* possible final <<max_speed, active_curves>>.
RECURSIVE ProfileLoop(_, _, _, _, _)
ProfileLoop(p, rd, i, max_speed, active_curves) ==
    IF i > Len(p) THEN {<<max_speed, active_curves>>}
    ELSE UNION { IF curve_speed = None
                 THEN ProfileLoop(p, rd, i + 1, max_speed, active_curves)
                 ELSE ProfileLoop(p, rd, i + 1,
                                  IF max_speed = None \/ curve_speed > max_speed
                                  THEN curve_speed ELSE max_speed,
                                  active_curves + 1)
                 : curve_speed \in curve_get_current_speed(p[i], rd) }

\* The set of values FanControlProfile.get_current_speed(backend) may
\* return: the largest speed of a curve, 0.0 when the profile has curves
\* and none is active, None when it has no curve.
profile_get_current_speed(p, rd) ==
    { IF r[1] # None THEN r[1]
      ELSE IF r[2] = 0 /\ p # <<>> THEN 0 ELSE None :
        r \in ProfileLoop(p, rd, 1, None, 0) }

\* Both computations of the demand on the chosen profile and readings:
\* demand becomes <<the service's value, the profile's value>>.
CalculateBoth ==
    /\ demand = <<>>
    /\ \E d \in calculate_max_speed_from_profile(profile, readings) :
          \E g \in profile_get_current_speed(profile, readings) :
              demand' = <<d, g>>
    /\ UNCHANGED <<profile, readings>>
-----------------------------------------------------------------------------
(* FanControlService: walls and profile demand *)

Walls == {1, 2, 3, 4}
\* Walls 1..3 are the rows of board 1, wall 4 all channels of board 2.
WallsOf(b) == IF b = 1 THEN {1, 2, 3} ELSE {4}
BoardOf(w) == IF w = 4 THEN 2 ELSE 1
\* self.fan_walls holds the walls of the boards present at start-up.
HasWall(w) == BoardOf(w) \in present

\* Values a user drags a slider to (ui.slider(min=20, max=100)).
SliderValues == {20, 60}
\* Arguments of FanControlService.set_fan_speed: <<rows, aux>>.
SetArgs == {<<<<60, 60, 40>>, 40>>}

\* round(v) of a speed in hundredths of a percent: whole percent, ties to
\* the even neighbour (x.5 is exact in binary floating point).
RoundWhole(h) ==
    LET q == h \div 100
        r == h % 100
    IN  IF r < 50 THEN q
        ELSE IF r > 50 THEN q + 1
        ELSE IF q % 2 = 0 THEN q ELSE q + 1

\* get_fan_profile_options: the names of the stored profiles, in order.
ProfileNames == {store[i].name : i \in DOMAIN store}
FirstProfile == store[1].name
\* get_profile_by_name: the curves of the first profile of that name.
get_profile_by_name(name) ==
    LET i == CHOOSE k \in DOMAIN store :
                 /\ store[k].name = name
                 /\ \A j \in 1..(k - 1) : store[j].name # name
    IN  store[i].curves

\* The identifier of the profile get_profile_by_name finds.
ProfileIdByName(name) ==
    LET i == CHOOSE k \in DOMAIN store :
                 /\ store[k].name = name
                 /\ \A j \in 1..(k - 1) : store[j].name # name
    IN  store[i].id

\* _update_single_fan_wall for a wall in profile mode: the possible
\* <<new current_speed, new assigned_profile>>.
ProfileSpeed(name) ==
    {RoundWhole(d) :
        d \in calculate_max_speed_from_profile(get_profile_by_name(name),
                                               readings)}

update_single_fan_wall(w) ==
    IF manual[w] THEN {<<speed[w], assigned[w]>>}
    ELSE IF assigned[w] = "" THEN {<<50, assigned[w]>>}
    ELSE IF assigned[w] \in ProfileNames
         THEN {<<v, assigned[w]>> : v \in ProfileSpeed(assigned[w])}
    ELSE IF ProfileNames # {}
         THEN {<<v, FirstProfile>> : v \in ProfileSpeed(FirstProfile)}
    ELSE {<<50, assigned[w]>>}

\* The last loop of ping_powerboards: every wall in profile mode takes the
\* speed its profile demands.  The possible <<speed, assigned>> afterwards.
Recomputed ==
    { <<[w \in Walls |-> IF HasWall(w) /\ ~manual[w] THEN f[w][1] ELSE speed[w]],
        [w \in Walls |-> IF HasWall(w) /\ ~manual[w] THEN f[w][2]
                          ELSE assigned[w]]>> :
      f \in {<<f1, f2, f3, f4>> : f1 \in update_single_fan_wall(1),
                                  f2 \in update_single_fan_wall(2),
                                  f3 \in update_single_fan_wall(3),
                                  f4 \in update_single_fan_wall(4)} }

\* The targets of the walls of board b as the triple the board takes.
TargetTriple(b) ==
    IF b = 1 THEN <<speed[1], speed[2], speed[3]>>
    ELSE <<speed[4], speed[4], speed[4]>>

\* A check that always reports a difference.
NeverCurrent(b) == FALSE

\* fan_speed_current(pb): the targets equal the running PWM of the board
\* (for board 2, only channel 3 is compared).
fan_speed_current(b) ==
    IF b = 1 THEN <<speed[1], speed[2], speed[3]>> = running[1]
    ELSE speed[4] = running[2][3]

-----------------------------------------------------------------------------
(* FanControlService: the coroutines.  The code between two awaits runs as
   one step of the event loop; a call handed to run.io_bound proceeds on a
   worker thread through Acquire, Write and Read. *)

\* The tasks that run the user's update requests: request_update_fan_speed
\* for board 1, request_update_auxiliary_fan_speed for board 2.
RequestTasks == {"req1", "req2"}
\* The tasks that go through the update semaphore of board b and are past
\* its non-blocking acquire.
InFlight(b) ==
    {r \in RequestTasks \cup {"auto"} : pc[r] # "idle" /\ call[r].b = b}

Done(t) == call[t].stage \in {"ok", "err"}
\* Everything of the boards a coroutine leaves alone when it starts a call.
LinkFrame == <<present, firmware, sem, port, wire, overlap>>

Spend(what) == budget' = [budget EXCEPT ![what] = @ - 1]

\* ---- ping_powerboards (app.timer(3.0, ...), registered with board 1) ----

\* A push that saves.
SavingPush == "set_fan_speed"
\* The method a tick pushes the targets with.
TickPushMethod == "update_fan_speed"

\* The tail of a tick: the walls in profile mode are recomputed.
TickFinish ==
    /\ \E r \in Recomputed : speed' = r[1] /\ assigned' = r[2]
    /\ pc' = [pc EXCEPT !["tick"] = "idle"]
    /\ call' = [call EXCEPT !["tick"] = NoCall]
    /\ loop' = "free"

\* The tick turns to board b, or to the tail after the last board.
TickTurnTo(b) ==
    IF b \in present
    THEN /\ pc' = [pc EXCEPT !["tick"] = IF b = 1 THEN "pull1" ELSE "pull2"]
         /\ call' = [call EXCEPT !["tick"] =
                        StartCall("update_powerboard_state", b, <<>>)]
         /\ loop' = "free"
         /\ UNCHANGED <<speed, assigned>>
    ELSE TickFinish

\* An exception leaves ping_powerboards; the timer survives it.
TickAbort ==
    /\ pc' = [pc EXCEPT !["tick"] = "idle"]
    /\ call' = [call EXCEPT !["tick"] = NoCall]
    /\ loop' = "free"
    /\ UNCHANGED <<speed, assigned>>

TickStart ==
    /\ pc["tick"] = "idle" /\ loop = "free"
    /\ 1 \in present
    /\ budget.ticks > 0 /\ Spend("ticks")
    /\ TickTurnTo(1)
    /\ UNCHANGED <<LinkFrame, cacheVars, manual, store, updSem, flags, loc,
                   hist, curveVars, restVars, profile, readings, demand>>

\* After update_powerboard_state of board b: compare, and push when the
\* targets differ.  The push is a plain call: it blocks the event loop.
TickAfterPull(b) ==
    /\ pc["tick"] = (IF b = 1 THEN "pull1" ELSE "pull2")
    /\ loop = "free" /\ Done("tick")
    /\ IF call["tick"].stage = "err" THEN TickAbort /\ UNCHANGED hist
       ELSE /\ hist' = [hist EXCEPT !.failed[b] = <<>>]
            /\ IF ~fan_speed_current(b)
               THEN /\ pc' = [pc EXCEPT !["tick"] =
                                  IF b = 1 THEN "push1" ELSE "push2"]
                    /\ call' = [call EXCEPT !["tick"] =
                                   StartCall(TickPushMethod, b, TargetTriple(b))]
                    /\ loop' = "tick"
                    /\ UNCHANGED <<speed, assigned>>
               ELSE TickTurnTo(b + 1)
    /\ UNCHANGED <<LinkFrame, cacheVars, manual, store, updSem, flags, loc,
                   budget, curveVars, restVars, profile, readings, demand>>

TickAfterPush(b) ==
    /\ pc["tick"] = (IF b = 1 THEN "push1" ELSE "push2")
    /\ loop = "tick" /\ Done("tick")
    /\ IF call["tick"].stage = "err" THEN TickAbort ELSE TickTurnTo(b + 1)
    /\ UNCHANGED <<LinkFrame, cacheVars, manual, store, updSem, flags, loc,
                   budget, hist, curveVars, restVars, profile, readings, demand>>

\* ---- request_update_fan_speed / request_update_auxiliary_fan_speed ----

\* An acquire that succeeds whatever the semaphore's value.
AlwaysWin(b) == TRUE
\* update_pwm_semaphore.acquire(blocking=False) succeeds.
CanWin(b) == updSem[b] > 0

\* The slider values of board b (the sliders are bound to the walls'
\* current_speed): get_current_slider_values / get_auxiliary_slider_value.
Sliders(b) == TargetTriple(b)
\* The triple as it was when the request was made.
ValuesAtCall(r, b) == hist.atCall[r]
\* The triple request r sends: read when the coroutine resumes after the
\* link semaphore was acquired and released.
RequestValues(r, b) == Sliders(b)

\* The coroutine of task r for board b starts.
RequestStart(r, b) ==
    /\ pc[r] = "idle" /\ loop = "free"
    /\ budget.requests > 0 /\ Spend("requests")
    /\ IF flags.programmatic \/ b \notin present
       THEN UNCHANGED <<pc, call, updSem, hist>>
       ELSE IF ~CanWin(b)
       THEN /\ hist' = [hist EXCEPT !.drops[b] = @ + 1]
            /\ UNCHANGED <<pc, call, updSem>>
       ELSE /\ updSem' = [updSem EXCEPT ![b] = @ - 1]
            /\ pc' = [pc EXCEPT ![r] = "wait"]
            /\ call' = [call EXCEPT ![r] = StartCall("acquire", b, <<>>)]
            /\ hist' = [hist EXCEPT !.wins[b] = @ + 1,
                                    !.atCall[r] = Sliders(b)]
    /\ UNCHANGED <<LinkFrame, cacheVars, wallVars, store, flags, loop, loc,
                   curveVars, restVars, profile, readings, demand>>

\* The link semaphore was acquired on the worker thread: release it, read
\* the sliders, and hand update_fan_speed to a worker thread.  Board 1
\* records the values as running PWM first (set_running_fan_pwm).
RequestGo(r, b) ==
    /\ pc[r] = "wait" /\ loop = "free" /\ call[r].stage = "ok"
    /\ call[r].b = b
    /\ sem' = [sem EXCEPT ![b] = @ + 1]
    /\ LET vals == RequestValues(r, b) IN
       IF b = 1 /\ ~validate_pwm_percentages(vals)
       THEN \* set_running_fan_pwm raises: except, finally
            /\ updSem' = [updSem EXCEPT ![b] = @ + 1]
            /\ pc' = [pc EXCEPT ![r] = "idle"]
            /\ call' = [call EXCEPT ![r] = NoCall]
            /\ UNCHANGED running
       ELSE /\ running' = IF b = 1 THEN [running EXCEPT ![1] = vals]
                          ELSE running
            /\ call' = [call EXCEPT ![r] =
                           StartCall("update_fan_speed", b, vals)]
            /\ pc' = [pc EXCEPT ![r] = "send"]
            /\ UNCHANGED updSem
    /\ UNCHANGED <<present, firmware, port, wire, overlap, saved, current,
                   rpm, watt, wallVars, store, flags, loop, loc, budget,
                   hist, curveVars, restVars, profile, readings, demand>>

\* update_fan_speed returned or raised: finally releases the semaphore.
RequestEnd(r, b) ==
    /\ pc[r] = "send" /\ loop = "free" /\ Done(r)
    /\ call[r].b = b
    /\ updSem' = [updSem EXCEPT ![b] = @ + 1]
    /\ pc' = [pc EXCEPT ![r] = "idle"]
    /\ call' = [call EXCEPT ![r] = NoCall]
    /\ hist' = [hist EXCEPT !.atCall[r] = <<>>]
    /\ UNCHANGED <<LinkFrame, cacheVars, wallVars, store, flags, loop, loc,
                   budget, curveVars, restVars, profile, readings, demand>>

\* ---- _perform_automatic_update / _request_update_fan_speed_direct ----

\* Walls 1..3 that the automatic update recomputes.
AutomaticWalls == {w \in 1..3 : HasWall(w) /\ ~manual[w] /\ assigned[w] # ""}

\* The triple the automatic update sends: the new speed of its walls, the
\* running PWM of the others.
Merge(new, cur) == [i \in 1..3 |-> IF new[i] # None THEN new[i] ELSE cur[i]]

AutoStart ==
    /\ pc["auto"] = "idle" /\ loop = "free"
    /\ budget.autos > 0 /\ Spend("autos")
    /\ IF ~flags.automatic \/ ~flags.active \/ AutomaticWalls = {}
       THEN UNCHANGED <<speed, assigned, pc, call, updSem, loc, hist>>
       ELSE \E r \in Recomputed :
            /\ speed' = [w \in Walls |-> IF w \in AutomaticWalls
                                          THEN r[1][w] ELSE speed[w]]
            /\ assigned' = [w \in Walls |-> IF w \in AutomaticWalls
                                             THEN r[2][w] ELSE assigned[w]]
            /\ IF flags.programmatic \/ ~CanWin(1)
               THEN UNCHANGED <<pc, call, updSem, loc, hist>>
               ELSE /\ updSem' = [updSem EXCEPT ![1] = @ - 1]
                    /\ pc' = [pc EXCEPT !["auto"] = "wait"]
                    /\ call' = [call EXCEPT !["auto"] =
                                   StartCall("acquire", 1, <<>>)]
                    /\ loc' = [loc EXCEPT !["auto"] =
                                  [i \in 1..3 |-> IF i \in AutomaticWalls
                                                  THEN r[1][i] ELSE None]]
                    /\ hist' = [hist EXCEPT !.wins[1] = @ + 1]
    /\ UNCHANGED <<LinkFrame, cacheVars, manual, store, flags, loop,
                   curveVars, restVars, profile, readings, demand>>

AutoGo ==
    /\ pc["auto"] = "wait" /\ loop = "free" /\ call["auto"].stage = "ok"
    /\ sem' = [sem EXCEPT ![1] = @ + 1]
    /\ LET vals == Merge(loc["auto"], running[1]) IN
       /\ running' = [running EXCEPT ![1] = vals]
       /\ call' = [call EXCEPT !["auto"] =
                      StartCall("update_fan_speed", 1, vals)]
    /\ pc' = [pc EXCEPT !["auto"] = "send"]
    /\ UNCHANGED <<present, firmware, port, wire, overlap, saved, current,
                   rpm, watt, wallVars, store, updSem, flags, loop, loc,
                   budget, hist, curveVars, restVars, profile, readings, demand>>

AutoEnd ==
    /\ pc["auto"] = "send" /\ loop = "free" /\ Done("auto")
    /\ updSem' = [updSem EXCEPT ![1] = @ + 1]
    /\ pc' = [pc EXCEPT !["auto"] = "idle"]
    /\ call' = [call EXCEPT !["auto"] = NoCall]
    /\ loc' = [loc EXCEPT !["auto"] = <<>>]
    /\ UNCHANGED <<LinkFrame, cacheVars, wallVars, store, flags, loop,
                   budget, hist, curveVars, restVars, profile, readings, demand>>

\* ---- FanControlService.set_fan_speed(row1, row2, row3, aux) ----

Aux3(a) == <<a[2], a[2], a[2]>>

\* The part of set_fan_speed for board b with triple t: set_saved_fan_pwm,
\* then Powerboard.set_fan_speed on a worker thread.  A board that is
\* absent is passed over; after board 2 the coroutine is over.
SetTurnTo(b, a) ==
    LET t == IF b = 1 THEN a[1] ELSE Aux3(a) IN
    IF b \in present /\ validate_pwm_percentages(t)
    THEN /\ saved' = [saved EXCEPT ![b] = t]
         /\ hist' = [hist EXCEPT !.before = saved[b]]
         /\ call' = [call EXCEPT !["set"] = StartCall("set_fan_speed", b, t)]
         /\ pc' = [pc EXCEPT !["set"] = IF b = 1 THEN "f1" ELSE "f2"]
         /\ loc' = [loc EXCEPT !["set"] = a]
    ELSE IF b = 1 /\ b \notin present /\ 2 \in present
               /\ validate_pwm_percentages(Aux3(a))
    THEN /\ saved' = [saved EXCEPT ![2] = Aux3(a)]
         /\ hist' = [hist EXCEPT !.before = saved[2]]
         /\ call' = [call EXCEPT !["set"] =
                        StartCall("set_fan_speed", 2, Aux3(a))]
         /\ pc' = [pc EXCEPT !["set"] = "f2"]
         /\ loc' = [loc EXCEPT !["set"] = a]
    ELSE /\ pc' = [pc EXCEPT !["set"] = "idle"]
         /\ call' = [call EXCEPT !["set"] = NoCall]
         /\ loc' = [loc EXCEPT !["set"] = <<>>]
         /\ UNCHANGED <<saved, hist>>

SetStart(a) ==
    /\ pc["set"] = "idle" /\ loop = "free"
    /\ budget.sets > 0 /\ Spend("sets")
    /\ SetTurnTo(1, a)
    /\ UNCHANGED <<LinkFrame, running, current, rpm, watt, wallVars, store,
                   updSem, flags, loop, curveVars, restVars, profile, readings, demand>>

\* Powerboard.set_fan_speed of board b returned (then set_running_fan_pwm
\* and the next board) or raised (the exception leaves the coroutine).
SetAfter(b) ==
    /\ pc["set"] = (IF b = 1 THEN "f1" ELSE "f2")
    /\ loop = "free" /\ Done("set")
    /\ IF call["set"].stage = "err"
       THEN /\ pc' = [pc EXCEPT !["set"] = "idle"]
            /\ call' = [call EXCEPT !["set"] = NoCall]
            /\ loc' = [loc EXCEPT !["set"] = <<>>]
            /\ UNCHANGED <<running, saved, hist>>
       ELSE /\ running' = [running EXCEPT ![b] = call["set"].args]
            /\ SetTurnTo(b + 1, loc["set"])
    /\ UNCHANGED <<LinkFrame, current, rpm, watt, wallVars, store,
                   updSem, flags, loop, budget, curveVars, restVars, profile, readings,
                   demand>>

\* ---- what the user and the environment do ----

\* The user drags the slider of a wall in manual mode (the slider is
\* enabled only then); the binding writes the wall's current_speed.
SliderMove(w, v) ==
    /\ loop = "free" /\ HasWall(w) /\ manual[w]
    /\ budget.moves > 0 /\ Spend("moves")
    /\ speed' = [speed EXCEPT ![w] = v]
    /\ UNCHANGED <<boardVars, manual, assigned, store, updSem, flags, loop,
                   pc, loc, hist, curveVars, restVars, profile, readings, demand>>

\* The Manual checkbox of a wall: set_manual_mode, and the first profile
\* is assigned when the wall goes to profile mode.
ToggleManual(w) ==
    /\ loop = "free" /\ HasWall(w)
    /\ budget.switches > 0 /\ Spend("switches")
    /\ manual' = [manual EXCEPT ![w] = ~manual[w]]
    /\ assigned' = IF manual[w] /\ ProfileNames # {}
                   THEN [assigned EXCEPT ![w] = FirstProfile] ELSE assigned
    /\ UNCHANGED <<boardVars, speed, store, updSem, flags, loop, pc, loc,
                   hist, curveVars, restVars, profile, readings, demand>>

\* set_automatic_control_enabled(enabled)
set_automatic_control_enabled(enabled) ==
    /\ loop = "free"
    /\ budget.switches > 0 /\ Spend("switches")
    /\ flags' = [flags EXCEPT !.automatic = enabled]
    /\ UNCHANGED <<boardVars, wallVars, store, updSem, loop, pc, loc, hist,
                   curveVars, restVars, profile, readings, demand>>

\* dialog_handler_discard: the sliders go back to the saved PWM without
\* their callbacks (the awaited update requests return at once, the flag
\* being set), and the running PWM is set to the saved one.
dialog_handler_discard ==
    /\ loop = "free"
    /\ budget.switches > 0 /\ Spend("switches")
    /\ flags' = [flags EXCEPT !.programmatic = (present # {})]
    /\ speed' = [w \in Walls |-> IF HasWall(w)
                                  THEN saved[BoardOf(w)][IF w = 4 THEN 3 ELSE w]
                                  ELSE speed[w]]
    /\ running' = [b \in Boards |->
                      IF b \notin present THEN running[b]
                      ELSE IF b = 1 THEN saved[1]
                      ELSE <<saved[2][3], saved[2][3], saved[2][3]>>]
    /\ UNCHANGED <<LinkFrame, saved, current, rpm, watt, call, manual,
                   assigned, store, updSem, loop, pc, loc, hist, curveVars, restVars,
                   profile, readings, demand>>

\* ui.timer(0.05, ..., once=True) of set_slider_value_without_callback.
ResetProgrammatic ==
    /\ loop = "free" /\ flags.programmatic
    /\ flags' = [flags EXCEPT !.programmatic = FALSE]
    /\ UNCHANGED <<boardVars, wallVars, store, updSem, loop, pc, loc, budget,
                   hist, curveVars, restVars, profile, readings, demand>>

\* ---- the worker threads of the tasks ----

TaskAcquire(t) ==
    /\ Acquire(t)
    /\ UNCHANGED <<serviceVars, curveVars, restVars, demandVars>>

\* The serial write; the U: of update requests and of ticks are counted.
TaskWrite(t) ==
    /\ Write(t)
    /\ hist' = IF call[t].cmd = "U" /\ t \in RequestTasks \cup {"auto"}
               THEN [hist EXCEPT !.writes[call[t].b] = @ + 1]
               ELSE IF call[t].cmd = "U" /\ t = "tick"
               THEN [hist EXCEPT !.pushes[call[t].b] = @ + 1]
               ELSE hist
    /\ UNCHANGED <<wallVars, store, updSem, flags, loop, pc, loc, budget,
                   curveVars, restVars, demandVars>>

\* The reply.  The fans and the load are steady: a T: or W: that is
\* answered reports what the board measured at construction.
TaskReply(t) ==
    \E outcome \in Outcomes :
      \E reading \in (IF call[t].cmd = "T" THEN {rpm[call[t].b] \div 30}
                       ELSE IF call[t].cmd = "W" THEN {watt[call[t].b]}
                       ELSE {0}) :
        /\ Read(t, outcome, reading)
        /\ IF outcome = "ok" THEN UNCHANGED budget
           ELSE budget.fails > 0 /\ Spend("fails")
        /\ UNCHANGED <<wallVars, store, updSem, flags, loop, pc, loc,
                       curveVars, restVars, demandVars>>

TaskRead(t) == TaskReply(t) /\ UNCHANGED hist

\* The reply, with its outcome recorded: hist.applied is the PWM the board
\* last acknowledged, hist.failed the targets at the time a U: failed.
TaskReadRecorded(t) ==
    /\ TaskReply(t)
    /\ LET b == call[t].b IN
       hist' = IF call[t].cmd \notin {"U", "F"} THEN hist
               ELSE IF call'[t].stage = "ok"
               THEN [hist EXCEPT !.applied[b] = call[t].args,
                                 !.failed[b] = <<>>]
               ELSE IF call[t].cmd = "U"
               THEN [hist EXCEPT !.failed[b] = <<TargetTriple(b)>>]
               ELSE hist

-----------------------------------------------------------------------------
(* SensorManagementService: hardware sensors and drive monitors            *)
(*                                                                         *)
(* Temperatures of this part are integers counting tenths of a degree, so  *)
(* that round(v, 1) is a real rounding step; sensor files hold             *)
(* millidegrees.  A name is the sequence of its pieces, with " (" a piece  *)
(* of its own, so that rfind(" (") and the substring test are computed.    *)

\* Contents of a sensor file other than a number of millidegrees.
NoFile == -2
Unreadable == -3

DriveHashes == {"d1", "d2"}
\* Drive.temp of a registered drive; 0 is a drive without a reading.
DriveTemps == {0, 350, 410}
\* What a sensor file may hold.
FileContents == {NoFile, Unreadable, 45000}
HardwarePaths == {"hwmon0/temp1_input", "hwmon1/temp1_input"}
CurveIds == {"c1", "c2"}
AggregationModes == {"average", "maximum"}

\* round(num / den, 1) of a temperature num/den >= 0 given in tenths of a
\* degree: both neighbours at an exact tie of the binary float.
RoundDegree(num, den) ==
    LET k == num \div den
    IN  {m \in {k, k + 1} : 2 * Abs(num - m * den) <= den}

\* LinuxHardwareMonitor.read_temperature: int(text) / 1000.0 rounded to
\* one decimal, None when the file cannot be read or parsed.
read_temperature(content) ==
    IF content \in {NoFile, Unreadable} THEN {None}
    ELSE RoundDegree(content, 100)

\* TemperatureSensor.read_hardware_temperature.
read_hardware_temperature(s) ==
    IF s.hardware_path # "" /\ hwmon[s.hardware_path] # NoFile
    THEN read_temperature(hwmon[s.hardware_path])
    ELSE {None}

\* TemperatureSensor.get_current_temperature.
TemperatureSensor_get_current_temperature(s) ==
    IF s.enabled
    THEN { IF hw # None THEN hw
           ELSE IF s.temperature > 0 THEN s.temperature ELSE 0 :
             hw \in read_hardware_temperature(s) }
    ELSE {0}

\* SensorManagementService.get_sensor(group_name, sensor_name): << >> for
\* None.
get_sensor(group_name, sensor_name) ==
    IF group_name \in DOMAIN sensor_groups
       /\ sensor_name \in DOMAIN sensor_groups[group_name].sensors
    THEN <<sensor_groups[group_name].sensors[sensor_name]>>
    ELSE <<>>

\* DriveTemperatureMonitor.get_drive_temperatures.
get_drive_temperatures(m) ==
    [d \in {h \in m.selected_drive_hashes \cap DOMAIN drivesList :
              drivesList[h] > 0} |-> drivesList[d]]

RECURSIVE SumOf(_)
SumOf(f) ==
    IF DOMAIN f = {} THEN 0
    ELSE LET d == CHOOSE x \in DOMAIN f : TRUE
         IN  f[d] + SumOf([y \in DOMAIN f \ {d} |-> f[y]])

\* DriveTemperatureMonitor.calculate_temperature.
calculate_temperature(m) ==
    LET drive_temps == get_drive_temperatures(m)
    IN  IF DOMAIN drive_temps = {} THEN {0}
        ELSE IF m.aggregation_mode = "maximum"
        THEN {CHOOSE t \in {drive_temps[d] : d \in DOMAIN drive_temps} :
                \A d \in DOMAIN drive_temps : drive_temps[d] <= t}
        ELSE RoundDegree(SumOf(drive_temps), Cardinality(DOMAIN drive_temps))

\* DriveTemperatureMonitor.update_temperature, with new_temp the value
\* calculate_temperature returned.
update_temperature(m, new_temp) ==
    IF new_temp > 0 THEN [m EXCEPT !.current_temperature = new_temp] ELSE m

\* ---- names and references ----

ParenPiece == " ("
\* The name apply_drive_selection gives a monitor:
\* "Drive Temp (<n> drives, <mode>)".
MonitorName(n, mode) ==
    <<"Drive Temp", ParenPiece, IF n = 1 THEN "1" ELSE "2", " drives, ",
      mode, ")">>
MonitorNames == {MonitorName(n, mode) : n \in {1, 2}, mode \in AggregationModes}
\* The reference a curve holds to a monitor, "Drives." + name, and the
\* display form with a status appended, "Drives.<name> (<status>)".
DriveRef(name) == <<"Drives.">> \o name
DriveRefWithStatus(name) == DriveRef(name) \o <<ParenPiece, "no drives available)">>
\* A reference "Group: Sensor" to a hardware sensor.
SensorRef(group_name, sensor_name) == <<group_name, ": ", sensor_name>>

\* a in b for strings.
IsIn(a, b) ==
    \E i \in 1..(Len(b) - Len(a) + 1) : SubSeq(b, i, i + Len(a) - 1) = a
\* text[:text.rfind(" (")]
BeforeLastParen(text) ==
    LET at == {i \in 1..Len(text) : text[i] = ParenPiece}
    IN  SubSeq(text, 1, (CHOOSE i \in at : \A j \in at : j <= i) - 1)

\* The first enabled monitor, in the dict's order, whose name passes.
FirstEnabled(Passes(_)) ==
    LET hits == {i \in 1..Len(drive_monitors) :
                   Passes(drive_monitors[i].name) /\ drive_monitors[i].enabled}
    IN  IF hits = {} THEN 0 ELSE CHOOSE i \in hits : \A j \in hits : i <= j

\* FanControlBackend.get_sensor_temperature, "Drives." branch: the index
\* of the monitor that answers, 0 when the method returns None.  The three
\* loops: the exact name, the name without its last parenthesis, a name
\* containing or contained in the text.
MonitorFor(rest) ==
    LET Exact(name) == name = rest
        exact == FirstEnabled(Exact)
        Stripped(name) == name = BeforeLastParen(rest)
        stripped == IF \E i \in 1..Len(rest) : rest[i] = ParenPiece
                    THEN FirstEnabled(Stripped) ELSE 0
        Partial(name) == IsIn(name, rest) \/ IsIn(rest, name)
        partial == FirstEnabled(Partial)
    IN  IF exact # 0 THEN exact
        ELSE IF stripped # 0 THEN stripped
        ELSE partial

\* FanControlBackend.get_sensor_temperature, "Group: Sensor" branch: the
\* values it may return.
SensorTemperature(ref) ==
    IF Len(ref) # 3 \/ ref[2] # ": " THEN {None}
    ELSE LET found == get_sensor(ref[1], ref[3])
         IN  IF found # <<>> /\ found[1].enabled
             THEN TemperatureSensor_get_current_temperature(found[1])
             ELSE {None}

References ==
    {DriveRef(n) : n \in MonitorNames}
      \cup {DriveRefWithStatus(MonitorName(1, "average"))}
      \cup {SensorRef("CPU", "Core"), SensorRef("GPU", "Edge")}

SensorFrame == <<drivesList, hwmon, sensor_groups, tempFile>>

\* FanControlBackend.get_sensor_temperature(ref): a drive monitor that
\* answers refreshes its temperature on the way
\* (DriveTemperatureMonitor.get_current_temperature).
GetSensorTemperature(ref) ==
    /\ IF ref[1] = "Drives."
       THEN LET i == MonitorFor(Tail(ref))
            IN  IF i = 0
                THEN /\ looked' = [ref |-> ref, value |-> None, by |-> 0, arg |-> <<>>]
                     /\ UNCHANGED drive_monitors
                ELSE \E new_temp \in calculate_temperature(drive_monitors[i]) :
                       LET m == update_temperature(drive_monitors[i], new_temp)
                       IN  /\ drive_monitors' =
                                [drive_monitors EXCEPT ![i] = m]
                           /\ looked' = [ref |-> ref,
                                         value |-> m.current_temperature,
                                         by |-> i, arg |-> <<>>]
       ELSE /\ \E v \in SensorTemperature(ref) :
                  looked' = [ref |-> ref, value |-> v, by |-> 0, arg |-> <<>>]
            /\ UNCHANGED drive_monitors
    /\ UNCHANGED SensorFrame

\* What update_all_sensors may leave in a sensor: the hardware reading when
\* there is one (SensorGroup.update_all_sensors).
SensorUpdates(s) ==
    { IF s.enabled /\ hw # None THEN [s EXCEPT !.temperature = hw] ELSE s :
        hw \in read_hardware_temperature(s) }
GroupUpdates(g) ==
    IF ~g.enabled THEN {g}
    ELSE { [g EXCEPT !.sensors = f] :
             f \in { h \in [DOMAIN g.sensors ->
                              UNION {SensorUpdates(g.sensors[n]) :
                                       n \in DOMAIN g.sensors}] :
                        \A n \in DOMAIN g.sensors :
                           h[n] \in SensorUpdates(g.sensors[n]) } }
\* What an update may leave in a monitor.
MonitorUpdates(m) ==
    IF ~m.enabled THEN {m}
    ELSE {update_temperature(m, t) : t \in calculate_temperature(m)}

\* SensorManagementService.update_all_sensors: every enabled sensor of an
\* enabled group takes its hardware reading, every enabled monitor its
\* calculated temperature.
update_all_sensors ==
    /\ sensor_groups' \in
          { sg \in [DOMAIN sensor_groups ->
                      UNION {GroupUpdates(sensor_groups[g]) :
                               g \in DOMAIN sensor_groups}] :
              \A g \in DOMAIN sensor_groups :
                 sg[g] \in GroupUpdates(sensor_groups[g]) }
    /\ drive_monitors' \in
          { ms \in [1..Len(drive_monitors) ->
                      UNION {MonitorUpdates(drive_monitors[i]) :
                               i \in 1..Len(drive_monitors)}] :
              \A i \in 1..Len(drive_monitors) :
                 ms[i] \in MonitorUpdates(drive_monitors[i]) }
    /\ <<sensor_groups', drive_monitors'>> # <<sensor_groups, drive_monitors>>
    /\ UNCHANGED <<drivesList, hwmon, tempFile, looked>>

\* The drive registry changes: a drive appears, disappears or reports
\* another temperature (globals.forceRefreshDrives).
DriveChange(d) ==
    /\ \/ /\ d \in DOMAIN drivesList
          /\ drivesList' = [h \in DOMAIN drivesList \ {d} |-> drivesList[h]]
       \/ \E t \in DriveTemps :
             drivesList' = [h \in DOMAIN drivesList \cup {d} |->
                              IF h = d THEN t ELSE drivesList[h]]
    /\ drivesList' # drivesList
    /\ UNCHANGED <<hwmon, sensor_groups, drive_monitors, tempFile, looked>>

\* The file behind a hardware path changes or goes away.
HardwareChange(path) ==
    /\ \E c \in FileContents :
          /\ c # hwmon[path]
          /\ hwmon' = [hwmon EXCEPT ![path] = c]
    /\ UNCHANGED <<drivesList, sensor_groups, drive_monitors, tempFile, looked>>

\* ---- the dict of drive monitors ----

\* Where the dict holds the key, 0 when it does not.
IndexOf(monitors, curve_id) ==
    LET hits == {i \in 1..Len(monitors) : monitors[i].curve_id = curve_id}
    IN  IF hits = {} THEN 0 ELSE CHOOSE i \in hits : TRUE
\* An insertion that never looks for the key.
AppendValue(monitors, m) == Append(monitors, m)
\* self.drive_monitors[m.curve_id] = m: the value of an existing key is
\* replaced where it stands, a new key goes last.
DictSet(monitors, m) ==
    LET i == IndexOf(monitors, m.curve_id)
    IN  IF i = 0 THEN Append(monitors, m) ELSE [monitors EXCEPT ![i] = m]
\* del self.drive_monitors[curve_id]
DictDel(monitors, curve_id) ==
    LET i == IndexOf(monitors, curve_id)
    IN  SubSeq(monitors, 1, i - 1) \o SubSeq(monitors, i + 1, Len(monitors))

\* TemperatureConfigManager.save_config: the document written.
SavedDocument(groups, monitors) ==
    [state |-> "ok", sensor_groups |-> groups, drive_monitors |-> monitors]

\* DriveTemperatureMonitor(name, aggregation_mode, curve_id) followed by
\* set_drives, as apply_drive_selection builds it; "" is a monitor without
\* curve id.
NewMonitor(curve_id, mode, drive_hashes) ==
    [name |-> MonitorName(Cardinality(drive_hashes), mode),
     aggregation_mode |-> mode,
     curve_id |-> curve_id,
     selected_drive_hashes |-> drive_hashes,
     enabled |-> TRUE,
     current_temperature |-> 0]
NewMonitors ==
    {NewMonitor(c, mode, ds) :
       c \in CurveIds \cup {""}, mode \in AggregationModes,
       ds \in (SUBSET DriveHashes) \ {{}}}

\* SensorManagementService.add_drive_monitor
add_drive_monitor(m) ==
    /\ IF m.curve_id # ""
       THEN /\ drive_monitors' = DictSet(drive_monitors, m)
            /\ tempFile' = SavedDocument(sensor_groups, drive_monitors')
            /\ looked' = [ref |-> <<"add", m.curve_id>>, value |-> None,
                          by |-> 0, arg |-> <<m>>]
       ELSE /\ UNCHANGED <<drive_monitors, tempFile>>
            /\ looked' = [ref |-> <<"add", "">>, value |-> None, by |-> 0,
                          arg |-> <<m>>]
    /\ UNCHANGED <<drivesList, hwmon, sensor_groups>>

\* SensorManagementService.remove_drive_monitor
remove_drive_monitor(curve_id) ==
    /\ IF IndexOf(drive_monitors, curve_id) # 0
       THEN /\ drive_monitors' = DictDel(drive_monitors, curve_id)
            /\ tempFile' = SavedDocument(sensor_groups, drive_monitors')
       ELSE UNCHANGED <<drive_monitors, tempFile>>
    /\ looked' = [ref |-> <<"remove", curve_id>>, value |-> None, by |-> 0, arg |-> <<>>]
    /\ UNCHANGED <<drivesList, hwmon, sensor_groups>>

\* SensorManagementService.remove_drive_monitors_for_curve
remove_drive_monitors_for_curve(curve_id) ==
    /\ IF IndexOf(drive_monitors, curve_id) # 0
       THEN /\ drive_monitors' = DictDel(drive_monitors, curve_id)
            /\ tempFile' = SavedDocument(sensor_groups, drive_monitors')
       ELSE UNCHANGED <<drive_monitors, tempFile>>
    /\ looked' = [ref |-> <<"remove_for_curve", curve_id>>, value |-> None,
                  by |-> 0, arg |-> <<>>]
    /\ UNCHANGED <<drivesList, hwmon, sensor_groups>>
-----------------------------------------------------------------------------
(* FanControlBackend: the profile store *)

\* The store is the dict self.profiles (profile id -> FanControlProfile) as
\* the sequence of its values in insertion order; a profile is
\* [id, name, curves] and curves is the dict _fan_curves (curve id ->
\* FanCurve) as the sequence of its values [id, name, sensor, data].
\* Identifiers are the numbers 1, 2, ... in the order uuid4 yields them; 0
\* is the identifier of nothing.

\* f'Fan Profile {index}' and f"Fan Curve {index}".
FanProfileName(index) ==
    CASE index = 1 -> "Fan Profile 1" [] index = 2 -> "Fan Profile 2"
      [] index = 3 -> "Fan Profile 3" [] index = 4 -> "Fan Profile 4"
      [] OTHER -> "Fan Profile 5"
FanCurveName(index) ==
    CASE index = 1 -> "Fan Curve 1" [] index = 2 -> "Fan Curve 2"
      [] index = 3 -> "Fan Curve 3" [] index = 4 -> "Fan Curve 4"
      [] OTHER -> "Fan Curve 5"

\* DEFAULT_FAN_CURVE_TEMPLATE
DEFAULT_FAN_CURVE_TEMPLATE ==
    <<Pt(30, 5000), Pt(40, 6000), Pt(50, 7000), Pt(60, 8000), Pt(70, 9000),
      Pt(80, 10000)>>

\* FanCurve(index) with the identifier id.
FanCurve(id, index) ==
    [id |-> id, name |-> FanCurveName(index), sensor |-> NoSensor,
     data |-> DEFAULT_FAN_CURVE_TEMPLATE]

\* FanControlProfile(index): the profile takes id, its first curve id + 1.
FanControlProfile(id, index) ==
    [id |-> id, name |-> FanProfileName(index),
     curves |-> <<FanCurve(id + 1, 1)>>]

\* The store after _create_default_profile_with_real_sensors: one profile
\* with one curve, bound to the preferred sensor or to none.
DefaultStore(sensor, id) ==
    <<[FanControlProfile(id, 1) EXCEPT !.curves[1].sensor = sensor]>>

\* Names a user types when renaming, and identifiers a caller passes.
ProfileNameInputs == {"Fan Profile 1", "Quiet"}
CurveNameInputs == {"Fan Curve 1", "Intake"}

NamesOf(items) == {items[i].name : i \in DOMAIN items}
IdsOf(items) == {items[i].id : i \in DOMAIN items}
\* The position of the item with that identifier (0 when there is none).
PosOf(items, id) ==
    IF id \in IdsOf(items) THEN CHOOSE i \in DOMAIN items : items[i].id = id
    ELSE 0
\* Identifiers a caller passes: those of the items and one of no item.
IdInputs(items) == IdsOf(items) \cup {0}
Without(items, id) == SelectSeq(items, LAMBDA it : it.id # id)

\* The loop of add_profile and add_curve: the first index whose name is
\* not taken.
FirstFree(taken, NameOf(_)) ==
    CHOOSE k \in 1..(Cardinality(taken) + 1) :
        /\ NameOf(k) \notin taken
        /\ \A j \in 1..(k - 1) : NameOf(j) \in taken

\* A duplicate check that never finds the name.
NameFree(items, new_name) == FALSE

\* `for x in ....values(): if x.name == new_name: return False`
NameTaken(items, new_name) == new_name \in NamesOf(items)

Returned(op, pid, cid, name, ret, new) ==
    [op |-> op, pid |-> pid, cid |-> cid, name |-> name, ret |-> ret,
     new |-> new]

\* FanControlBackend.add_profile
add_profile ==
    /\ Len(store) < MaxProfiles
    /\ nextId + 2 <= MaxIds
    /\ LET index == FirstFree(NamesOf(store), FanProfileName)
       IN  /\ store' = Append(store, FanControlProfile(nextId + 1, index))
           /\ last' = Returned("add_profile", 0, 0, "", TRUE, nextId + 1)
    /\ nextId' = nextId + 2

\* FanControlBackend.remove_profile
remove_profile(profile_id) ==
    /\ IF Len(store) <= 1 \/ profile_id \notin IdsOf(store)
       THEN /\ store' = store
            /\ last' = Returned("remove_profile", profile_id, 0, "", FALSE, 0)
       ELSE /\ store' = Without(store, profile_id)
            /\ last' = Returned("remove_profile", profile_id, 0, "", TRUE, 0)
    /\ UNCHANGED nextId

\* FanControlBackend.rename_profile
rename_profile(profile_id, new_name) ==
    /\ IF profile_id \notin IdsOf(store) \/ NameTaken(store, new_name)
       THEN /\ store' = store
            /\ last' = Returned("rename_profile", profile_id, 0, new_name,
                                FALSE, 0)
       ELSE /\ store' = [store EXCEPT ![PosOf(store, profile_id)].name =
                            new_name]
            /\ last' = Returned("rename_profile", profile_id, 0, new_name,
                                TRUE, 0)
    /\ UNCHANGED nextId

\* FanControlProfile.add_curve on the profile get_profile(profile_id).
add_curve(profile_id) ==
    /\ profile_id \in IdsOf(store)
    /\ nextId + 1 <= MaxIds
    /\ LET p == PosOf(store, profile_id)
           index == FirstFree(NamesOf(store[p].curves), FanCurveName)
       IN  /\ Len(store[p].curves) < MaxCurves
           /\ store' = [store EXCEPT ![p].curves =
                           Append(@, FanCurve(nextId + 1, index))]
           /\ last' = Returned("add_curve", profile_id, 0, "", TRUE,
                               nextId + 1)
    /\ nextId' = nextId + 1

\* FanControlProfile.remove_curve on the profile get_profile(profile_id).
remove_curve(profile_id, curve_id) ==
    /\ profile_id \in IdsOf(store)
    /\ LET p == PosOf(store, profile_id)
       IN  IF Len(store[p].curves) <= 1
              \/ curve_id \notin IdsOf(store[p].curves)
           THEN /\ store' = store
                /\ last' = Returned("remove_curve", profile_id, curve_id, "",
                                    FALSE, 0)
           ELSE /\ store' = [store EXCEPT ![p].curves = Without(@, curve_id)]
                /\ last' = Returned("remove_curve", profile_id, curve_id, "",
                                    TRUE, 0)
    /\ UNCHANGED nextId

\* FanControlProfile.rename_curve on the profile get_profile(profile_id).
rename_curve(profile_id, curve_id, new_name) ==
    /\ profile_id \in IdsOf(store)
    /\ LET p == PosOf(store, profile_id)
           curves == store[p].curves
       IN  IF curve_id \notin IdsOf(curves) \/ NameTaken(curves, new_name)
           THEN /\ store' = store
                /\ last' = Returned("rename_curve", profile_id, curve_id,
                                    new_name, FALSE, 0)
           ELSE /\ store' = [store EXCEPT ![p].curves[PosOf(curves, curve_id)]
                                              .name = new_name]
                /\ last' = Returned("rename_curve", profile_id, curve_id,
                                    new_name, TRUE, 0)
    /\ UNCHANGED nextId

-----------------------------------------------------------------------------
(* FanControlBackend: editing curves and saving the store *)

\* A dict built by assigning the items in order under the key Key(item):
\* a key keeps the position of its first assignment and the value of its
\* last.  The dict as the sequence of its values.
DictBy(items, Key(_)) ==
    LET firsts == {i \in DOMAIN items :
                      \A j \in 1..(i - 1) : Key(items[j]) # Key(items[i])}
        FirstAt(m) == CHOOSE f \in firsts :
                          Cardinality({g \in firsts : g < f}) = m - 1
        LastOf(f) == CHOOSE j \in DOMAIN items :
                         /\ Key(items[j]) = Key(items[f])
                         /\ \A k \in (j + 1)..Len(items) :
                                Key(items[k]) # Key(items[f])
    IN  [m \in 1..Cardinality(firsts) |-> items[LastOf(FirstAt(m))]]

NameKey(item) == item.name
IdKey(item) == item.id

\* FanControlProfile.to_json: the curves keyed by their names.
Profile_to_json(p) == [p EXCEPT !.curves = DictBy(p.curves, NameKey)]
\* FanControlProfile.from_json: the curves keyed by their identifiers.
Profile_from_json(d) == [d EXCEPT !.curves = DictBy(d.curves, IdKey)]

\* The file save_to_config writes: the profiles keyed by their names, each
\* as to_json gives it.
ProfilesDocument(profiles) ==
    [state |-> "ok",
     profiles |-> [i \in DOMAIN DictBy(profiles, NameKey) |->
                      Profile_to_json(DictBy(profiles, NameKey)[i])]]

\* Curve data a caller passes to set_curve_data.
EditData ==
    { DEFAULT_FAN_CURVE_TEMPLATE,
      <<>>,
      <<Pt(50, 12000)>>,
      <<Pt(50, 4000), Pt(30, 2000)>> }
\* Curve data the chart of the page hands over in the checked runs.
ChartData == {DEFAULT_FAN_CURVE_TEMPLATE, <<Pt(30, 2000), Pt(50, 10000)>>}

\* FanControlProfile.set_curve_data on the profile get_profile(profile_id).
set_curve_data(profile_id, curve_id, data) ==
    /\ profile_id \in IdsOf(store)
    /\ LET p == PosOf(store, profile_id)
           c == PosOf(store[p].curves, curve_id)
       IN  IF c # 0
           THEN /\ store' = [store EXCEPT ![p].curves[c].data = data]
                /\ last' = Returned("set_curve_data", profile_id, curve_id,
                                    "", TRUE, 0)
           ELSE /\ store' = store
                /\ last' = Returned("set_curve_data", profile_id, curve_id,
                                    "", FALSE, 0)
    /\ UNCHANGED <<nextId, profFile>>

\* The loop of save_current_profile_data over curves_data.items(): the
\* first curve whose name is the key takes the data, sensor and name of the
\* entry.
RECURSIVE UpdateFromChart(_, _)
UpdateFromChart(curves, entries) ==
    IF entries = <<>> THEN curves
    ELSE LET e == entries[1]
             hits == {i \in DOMAIN curves : curves[i].name = e.key}
             updated ==
                 IF hits = {} THEN curves
                 ELSE LET i == CHOOSE k \in hits : \A h \in hits : k <= h
                      IN  [curves EXCEPT ![i] =
                              [id |-> curves[i].id, name |-> e.name,
                               sensor |-> e.sensor, data |-> e.data]]
         IN  UpdateFromChart(updated, Tail(entries))

\* What getCurrentDataForPython returns for a page showing these curves:
\* one entry per curve, under the curve's name, with the data drawn on the
\* chart.
ChartEntries(curves) ==
    { [i \in DOMAIN curves |->
          [key |-> curves[i].name, name |-> curves[i].name,
           sensor |-> curves[i].sensor, data |-> d[i]]] :
      d \in [DOMAIN curves -> ChartData] }

\* save_current_profile_data for the selected profile: the chart data goes
\* into the curves and the store is saved (save_to_config).
save_current_profile_data(profile_id, curves_data) ==
    /\ profile_id \in IdsOf(store)
    /\ curves_data # <<>>
    /\ LET p == PosOf(store, profile_id)
       IN  store' = [store EXCEPT ![p].curves =
                        UpdateFromChart(@, curves_data)]
    /\ profFile' = ProfilesDocument(store')
    /\ last' = Returned("save_current_profile_data", profile_id, 0, "",
                        TRUE, 0)
    /\ UNCHANGED nextId

\* save_profile_name of the profile dialog for the selected profile: a
\* new, non-empty name that no profile carries is set with set_name and the
\* store is saved; the walls are not told.
save_profile_name(profile_id, new_name) ==
    /\ profile_id \in IdsOf(store)
    /\ LET p == PosOf(store, profile_id)
           previous_name == store[p].name
       IN  IF new_name # "" /\ new_name # previous_name
              /\ new_name \notin NamesOf(store)
           THEN /\ store' = [store EXCEPT ![p].name = new_name]
                /\ profFile' = ProfilesDocument(store')
                /\ last' = Returned("save_profile_name", profile_id, 0,
                                    new_name, TRUE, 0)
           ELSE /\ UNCHANGED <<store, profFile>>
                /\ last' = Returned("save_profile_name", profile_id, 0,
                                    new_name, FALSE, 0)
    /\ UNCHANGED nextId

-----------------------------------------------------------------------------
(* FanControlBackend: loading the store and migrating sensor bindings *)

\* Sensor references of curves are strings; what Python computes on their
\* characters (lower, in, split, startswith, sorted) is tabulated for the
\* references of the checked runs.
StaleSensor == "CPU: Package"
DriveSensor == "Drives.Drive Temp (2 drives, average)"
SensorRefs == {"CPU: Core", "GPU: Edge", StaleSensor, DriveSensor}

\* f"{group_name}: {sensor_name}"
DisplayName(group_name, sensor_name) ==
    CASE group_name = "CPU" /\ sensor_name = "Core" -> "CPU: Core"
      [] group_name = "GPU" /\ sensor_name = "Edge" -> "GPU: Edge"
      [] OTHER -> StaleSensor
\* sorted(...) of the references: their order as strings.
Alphabetical == <<"CPU: Core", StaleSensor, DriveSensor, "GPU: Edge">>
\* sensor.startswith("Drives.")
StartsWithDrives(s) == s = DriveSensor
\* 'cpu' in s.lower()
HasCpu(s) == s \in {"CPU: Core", StaleSensor}
\* The family of terms some of which s.lower() contains, in the order of
\* the if/elif chain of _suggest_sensor_replacement ("" for none).
TermFamilies(s) ==
    CASE s \in {"CPU: Core", StaleSensor} -> {"cpu"}
      [] s = "GPU: Edge" -> {"gpu"}
      [] s = DriveSensor -> {"storage"}
      [] OTHER -> {}
\* The words of s.lower().split() longer than 2 characters.
LongWords(s) ==
    CASE s = "CPU: Core" -> {"cpu:", "core"}
      [] s = StaleSensor -> {"cpu:", "package"}
      [] s = "GPU: Edge" -> {"gpu:", "edge"}
      [] s = DriveSensor -> {"drives.drive", "temp", "drives,", "average)"}
      [] OTHER -> {}
\* word in s.lower(), for the words above.
WordIn(word, s) ==
    \/ word \in LongWords(s)
    \/ word = "temp" /\ s = DriveSensor
\* a.lower() == b.lower(): no two of the references differ in case only.
SameLower(a, b) == a = b

\* sensor.is_hardware_available() of a TemperatureSensor.
sensor_is_hardware_available(s) == hwmon[s.hardware_path] # NoFile
\* DriveTemperatureMonitor.is_hardware_available()
monitor_is_hardware_available(m) ==
    m.selected_drive_hashes \cap DOMAIN drivesList # {}

\* get_available_temperature_sensors: the sorted references of the enabled
\* sensors whose file exists and of the enabled drive monitors with a
\* drive (the monitors of the checked runs carry the name of DriveSensor).
get_available_temperature_sensors ==
    LET sensors ==
            UNION { {DisplayName(g, n) :
                       n \in {k \in DOMAIN sensor_groups[g].sensors :
                                /\ sensor_groups[g].sensors[k].enabled
                                /\ sensor_is_hardware_available(
                                       sensor_groups[g].sensors[k])}} :
                    g \in DOMAIN sensor_groups }
        monitors == {DriveSensor : i \in
                        {k \in DOMAIN drive_monitors :
                            /\ drive_monitors[k].enabled
                            /\ monitor_is_hardware_available(
                                   drive_monitors[k])}}
    IN  SelectSeq(Alphabetical, LAMBDA s : s \in sensors \cup monitors)

ListToSet(list) == {list[i] : i \in DOMAIN list}
\* The first element of the list that passes (cpu_sensors[0] and the like).
FirstThat(list, Passes(_)) ==
    list[CHOOSE i \in DOMAIN list :
            Passes(list[i]) /\ \A j \in 1..(i - 1) : ~Passes(list[j])]

\* The priority _suggest_sensor_replacement gives the candidate sensor.
Priority(old_sensor, sensor) ==
    (IF TermFamilies(old_sensor) # {}
        /\ TermFamilies(old_sensor) = TermFamilies(sensor)
     THEN 10 ELSE 0)
    + 5 * Cardinality({w \in LongWords(old_sensor) : WordIn(w, sensor)})

\* _suggest_sensor_replacement (NoSensor for None).
suggest_sensor_replacement(old_sensor, available_sensors) ==
    IF available_sensors = <<>> THEN NoSensor
    ELSE IF \E i \in DOMAIN available_sensors :
                SameLower(old_sensor, available_sensors[i])
    THEN FirstThat(available_sensors, LAMBDA s : SameLower(old_sensor, s))
    ELSE LET Best(s) ==
                 /\ Priority(old_sensor, s) > 0
                 /\ \A i \in DOMAIN available_sensors :
                       Priority(old_sensor, available_sensors[i])
                           <= Priority(old_sensor, s)
         IN  IF \E i \in DOMAIN available_sensors :
                    Priority(old_sensor, available_sensors[i]) > 0
             THEN FirstThat(available_sensors, Best)
             ELSE available_sensors[1]

\* The default sensor of a curve: the first CPU sensor, else the first.
default_sensor(available_sensors) ==
    IF \E i \in DOMAIN available_sensors : HasCpu(available_sensors[i])
    THEN FirstThat(available_sensors, HasCpu)
    ELSE available_sensors[1]

\* The body of the loop of auto_migrate_sensor_assignments for one curve.
migrate_curve(curve, available_sensors) ==
    IF curve.sensor # NoSensor
    THEN IF curve.sensor \notin ListToSet(available_sensors)
            /\ ~StartsWithDrives(curve.sensor)
            /\ suggest_sensor_replacement(curve.sensor, available_sensors)
                   # NoSensor
         THEN [curve EXCEPT !.sensor =
                  suggest_sensor_replacement(curve.sensor, available_sensors)]
         ELSE curve
    ELSE IF available_sensors # <<>>
         THEN [curve EXCEPT !.sensor = default_sensor(available_sensors)]
         ELSE curve

\* auto_migrate_sensor_assignments over the profiles.
auto_migrate_sensor_assignments(profiles, available_sensors) ==
    [i \in DOMAIN profiles |->
        [profiles[i] EXCEPT !.curves =
            [c \in DOMAIN profiles[i].curves |->
                migrate_curve(profiles[i].curves[c], available_sensors)]]]

\* ConfigManager.load_profiles: the profiles of the document, nothing when
\* the file is missing or cannot be parsed.
load_profiles(file) ==
    IF file.state # "ok" THEN <<>>
    ELSE [i \in DOMAIN file.profiles |-> Profile_from_json(file.profiles[i])]

\* _create_default_profile_with_real_sensors on an empty store: the new
\* profile with its first curve on the default sensor.
create_default_profile(id, available_sensors) ==
    IF available_sensors # <<>>
    THEN DefaultStore(default_sensor(available_sensors), id)
    ELSE DefaultStore(NoSensor, id)

\* FanControlBackend.__init__ in a new process (_initialize_profiles): the
\* loaded profiles, keyed by their identifiers, are migrated and saved when
\* a binding changed; without loaded profiles the default profile is
\* created and saved.
construct_backend ==
    LET loaded == DictBy(load_profiles(profFile), IdKey)
        available == get_available_temperature_sensors
    IN  IF loaded # <<>>
        THEN /\ store' = auto_migrate_sensor_assignments(loaded, available)
             /\ profFile' = IF store' # loaded THEN ProfilesDocument(store')
                            ELSE profFile
             /\ UNCHANGED nextId
        ELSE /\ nextId + 2 <= MaxIds
             /\ store' = create_default_profile(nextId + 1, available)
             /\ profFile' = ProfilesDocument(store')
             /\ nextId' = nextId + 2

\* FanControlProfile.set_curve_sensor on the profile get_profile(profile_id).
set_curve_sensor(profile_id, curve_id, sensor) ==
    /\ profile_id \in IdsOf(store)
    /\ LET p == PosOf(store, profile_id)
           c == PosOf(store[p].curves, curve_id)
       IN  IF c # 0
           THEN /\ store' = [store EXCEPT ![p].curves[c].sensor = sensor]
                /\ last' = Returned("set_curve_sensor", profile_id, curve_id,
                                    "", TRUE, 0)
           ELSE /\ store' = store
                /\ last' = Returned("set_curve_sensor", profile_id, curve_id,
                                    "", FALSE, 0)
    /\ UNCHANGED <<nextId, profFile>>

\* FanControlBackend.save_to_config
save_to_config ==
    /\ profFile' = ProfilesDocument(store)
    /\ last' = Returned("save_to_config", 0, 0, "", TRUE, 0)
    /\ UNCHANGED <<store, nextId>>

-----------------------------------------------------------------------------
(* FanControlService: modes and bindings of the walls, and their file *)

\* str(wall_id), the key of a wall in the file, and int(wall_id_str).
WallKey(w) ==
    CASE w = 1 -> "1" [] w = 2 -> "2" [] w = 3 -> "3" [] w = 4 -> "4"
      [] OTHER -> "5"
KeyWall(k) ==
    CASE k = "1" -> 1 [] k = "2" -> 2 [] k = "3" -> 3 [] k = "4" -> 4
      [] OTHER -> 5
\* self.fan_walls: the walls of the boards present.
FanWalls == {w \in Walls : HasWall(w)}
\* The channel of its board a wall takes its speed from.
ChannelOf(w) == IF w = 4 THEN 3 ELSE w

\* _save_config: the document written for flags fl and the walls ws with
\* their bindings a, modes m and speeds s.
FanDocument(fl, ws, a, m, s) ==
    [state |-> "ok",
     automatic_control_enabled |-> fl.automatic,
     fan_wall_service_active |-> fl.active,
     fan_walls |-> [k \in {WallKey(w) : w \in ws} |->
                      [assigned_profile |-> a[KeyWall(k)],
                       manual |-> m[KeyWall(k)],
                       current_speed |-> s[KeyWall(k)]]]]

\* The flags of a service that loaded no configuration.
DefaultFlags == [programmatic |-> FALSE, automatic |-> FALSE, active |-> FALSE]
\* The document _load_config saves when there is no file: no wall exists
\* yet.
DefaultFanDocument == FanDocument(DefaultFlags, {}, <<>>, <<>>, <<>>)

\* Wall identifiers and profile names a caller passes ("" for None).
WallInputs == {1, 4, 5}
ProfileInputs == {"", "Fan Profile 2", "Gone"}

\* FanControlService.set_manual_mode
set_manual_mode(wall_id, m) ==
    /\ IF wall_id \notin FanWalls
       THEN /\ UNCHANGED <<manual, fanFile>>
            /\ last' = Returned("set_manual_mode", wall_id, 0, "", FALSE, 0)
       ELSE /\ manual' = [manual EXCEPT ![wall_id] = m]
            /\ fanFile' = FanDocument(flags, FanWalls, assigned, manual',
                                      speed)
            /\ last' = Returned("set_manual_mode", wall_id, 0, "", TRUE, 0)
    /\ UNCHANGED <<speed, assigned>>

\* FanControlService.assign_profile_to_wall
assign_profile_to_wall(wall_id, profile_name) ==
    /\ IF \/ wall_id \notin FanWalls
          \/ profile_name # "" /\ profile_name \notin ProfileNames
       THEN /\ UNCHANGED <<assigned, fanFile>>
            /\ last' = Returned("assign_profile_to_wall", wall_id, 0,
                                profile_name, FALSE, 0)
       ELSE /\ assigned' = [assigned EXCEPT ![wall_id] = profile_name]
            /\ fanFile' = FanDocument(flags, FanWalls, assigned', manual,
                                      speed)
            /\ last' = Returned("assign_profile_to_wall", wall_id, 0,
                                profile_name, TRUE, 0)
    /\ UNCHANGED <<speed, manual>>

\* An application of the file that takes the speed from the file as well.
ApplySnapshot(file, w, fresh) ==
    IF file.state = "ok" /\ WallKey(w) \in DOMAIN file.fan_walls
    THEN file.fan_walls[WallKey(w)]
    ELSE fresh

\* _apply_loaded_config for wall w, created as fresh: binding and mode
\* come from the file when it was loaded and holds the wall, the speed
\* stays.
apply_loaded_config(file, w, fresh) ==
    IF file.state = "ok" /\ WallKey(w) \in DOMAIN file.fan_walls
    THEN [fresh EXCEPT
            !.assigned_profile = file.fan_walls[WallKey(w)].assigned_profile,
            !.manual = file.fan_walls[WallKey(w)].manual]
    ELSE fresh

\* FanControlService.__init__: _load_config (flags from the file; a
\* missing file is created, an unreadable one is left as it is), then
\* _initialize_fan_walls: every wall in manual mode on the first profile
\* at the running PWM of its board, then the loaded file applied.
construct_service ==
    LET loaded == fanFile.state = "ok"
        default_profile == IF store = <<>> THEN "" ELSE FirstProfile
        Wall(w) ==
            apply_loaded_config(fanFile, w,
                [assigned_profile |-> default_profile, manual |-> TRUE,
                 current_speed |-> running[BoardOf(w)][ChannelOf(w)]])
    IN  /\ flags' = IF loaded
                    THEN [programmatic |-> FALSE,
                          automatic |-> fanFile.automatic_control_enabled,
                          active |-> fanFile.fan_wall_service_active]
                    ELSE DefaultFlags
        /\ fanFile' = IF fanFile.state = "missing" THEN DefaultFanDocument
                      ELSE fanFile
        /\ speed' = [w \in Walls |-> Wall(w).current_speed]
        /\ manual' = [w \in Walls |-> Wall(w).manual]
        /\ assigned' = [w \in Walls |-> Wall(w).assigned_profile]
        /\ updSem' = [b \in Boards |-> 1]

-----------------------------------------------------------------------------
(* Start-up: every component loads its configuration file *)

\* A file that does not exist, and a file whose content is not JSON.
Missing == [state |-> "missing"]
Invalid == [state |-> "invalid"]

\* Chassis.MAX_BACKPLANES
MAX_BACKPLANES == 12

\* The settings of a Chassis after __init__ and after _reset_to_defaults
\* ("" for the product None); no backplane is installed.
DefaultLayout ==
    [product |-> "", backplanes |-> [i \in 1..MAX_BACKPLANES |-> None],
     show_model |-> TRUE, show_sn |-> TRUE, hide_multi_curve_dialog |-> FALSE]
\* Chassis.save_config: the document written.
LayoutDocument(l) ==
    [state |-> "ok", product |-> l.product, backplanes |-> l.backplanes,
     options |-> [show_model |-> l.show_model, show_sn |-> l.show_sn,
                  hide_multi_curve_dialog |-> l.hide_multi_curve_dialog]]

\* Chassis.__init__ with _load_config: a missing file is created from the
\* defaults; invalid JSON resets product and backplanes (_reset_to_defaults)
\* and leaves the file; a document is taken over, its backplane list
\* filled up to MAX_BACKPLANES slots (the documents of the checked runs
\* hold empty slots only).
construct_chassis ==
    IF layoutFile.state = "missing"
    THEN /\ layout' = DefaultLayout
         /\ layoutFile' = LayoutDocument(DefaultLayout)
    ELSE IF layoutFile.state = "invalid"
    THEN /\ layout' = DefaultLayout
         /\ UNCHANGED layoutFile
    ELSE /\ layout' =
              [product |-> layoutFile.product,
               backplanes |->
                   [i \in 1..MAX_BACKPLANES |->
                       IF i <= Len(layoutFile.backplanes)
                       THEN layoutFile.backplanes[i] ELSE None],
               show_model |-> layoutFile.options.show_model,
               show_sn |-> layoutFile.options.show_sn,
               hide_multi_curve_dialog |->
                   layoutFile.options.hide_multi_curve_dialog]
         /\ UNCHANGED layoutFile

\* TemperatureSensor(name, enabled=True, hardware_path=path) at a
\* temperature.
Sensor(path, temp) ==
    [enabled |-> TRUE, hardware_path |-> path, temperature |-> temp]

\* TemperatureConfigManager.get_default_config: a group for every
\* detected sensor file, the sensor at the temperature read from it (0.0
\* when the file cannot be read).
get_default_config ==
    LET Found(path) == hwmon[path] # NoFile
        First(path) ==
            LET s == Sensor(path, 0)
                t == CHOOSE v \in read_hardware_temperature(s) : TRUE
            IN  IF t # None THEN Sensor(path, t) ELSE s
    IN  [g \in {n \in {"CPU", "GPU"} :
                   Found(IF n = "CPU" THEN "hwmon0/temp1_input"
                         ELSE "hwmon1/temp1_input")} |->
           [enabled |-> TRUE,
            sensors |-> IF g = "CPU"
                        THEN [n \in {"Core"} |-> First("hwmon0/temp1_input")]
                        ELSE [n \in {"Edge"} |-> First("hwmon1/temp1_input")]]]

CurveKey(monitor) == monitor.curve_id

\* SensorManagementService.__init__ with load_configuration: the groups and
\* monitors of the document, or the default configuration without monitors
\* when the file is missing or cannot be loaded; the configuration is
\* saved only when the file did not exist.
construct_sensor_service ==
    LET config_exists == tempFile.state # "missing"
    IN  /\ IF tempFile.state = "ok"
           THEN /\ sensor_groups' = tempFile.sensor_groups
                /\ drive_monitors' = DictBy(tempFile.drive_monitors, CurveKey)
           ELSE /\ sensor_groups' = get_default_config
                /\ drive_monitors' = <<>>
        /\ tempFile' = IF config_exists THEN tempFile
                       ELSE SavedDocument(sensor_groups', drive_monitors')

-----------------------------------------------------------------------------
(* Specifications *)

IdleCurve == curve_data = <<>> /\ temperature = None /\ result = <<>>
IdleDemand == profile = <<>> /\ readings = <<>> /\ demand = <<>>
IdleBoards ==
    /\ present = {}
    /\ firmware = <<>> /\ sem = <<>> /\ port = <<>> /\ wire = <<>>
    /\ overlap = FALSE
    /\ running = <<>> /\ saved = <<>> /\ current = <<>>
    /\ rpm = <<>> /\ watt = <<>>
    /\ call = <<>>
IdleService ==
    /\ speed = <<>> /\ manual = <<>> /\ assigned = <<>> /\ store = <<>>
    /\ updSem = <<>> /\ flags = <<>> /\ loop = "free"
    /\ pc = <<>> /\ loc = <<>> /\ budget = <<>> /\ hist = <<>>
NoLook == [ref |-> <<>>, value |-> None, by |-> 0, arg |-> <<>>]
IdleSensors ==
    /\ drivesList = <<>> /\ hwmon = <<>> /\ sensor_groups = <<>>
    /\ drive_monitors = <<>> /\ tempFile = <<>> /\ looked = NoLook
NoOp == [op |-> "none", pid |-> 0, cid |-> 0, name |-> "", ret |-> TRUE,
         new |-> 0]
IdleBackend == nextId = 0 /\ last = NoOp /\ profFile = <<>>
IdleFiles == fanFile = <<>> /\ layoutFile = <<>> /\ layout = <<>>
IdleRest == IdleSensors /\ IdleBackend /\ IdleFiles

\* interpolate_fan_speed on every curve and temperature of the bounds.
InitInterp ==
    InitCurve /\ IdleDemand /\ IdleBoards /\ IdleService /\ IdleRest
NextInterp == Evaluate /\ UNCHANGED <<restVars, demandVars, boardVars, serviceVars>>
SpecInterp == InitInterp /\ [][NextInterp]_vars

\* _calculate_max_speed_from_profile on every profile of the bounds.
InitDemandOnly ==
    InitDemand /\ IdleCurve /\ IdleBoards /\ IdleService /\ IdleRest
NextDemand == Calculate /\ UNCHANGED <<curveVars, restVars, boardVars, serviceVars>>
SpecDemand == InitDemandOnly /\ [][NextDemand]_vars

\* Threads calling the public methods of one constructed Powerboard.
InitLink ==
    InitBoards({1}) /\ IdleCurve /\ IdleDemand /\ IdleService /\ IdleRest
NextLink ==
    \/ \E t \in LinkThreads : CallWithRows(t) /\ UNCHANGED <<curveVars, restVars, demandVars, serviceVars>>
    \/ \E t \in LinkThreads : CallWithoutArgs(t) /\ UNCHANGED <<curveVars, restVars, demandVars, serviceVars>>
    \/ \E t \in LinkThreads : Acquire(t) /\ UNCHANGED <<curveVars, restVars, demandVars, serviceVars>>
    \/ \E t \in LinkThreads : Write(t) /\ UNCHANGED <<curveVars, restVars, demandVars, serviceVars>>
    \/ \E t \in LinkThreads : ReadAny(t) /\ UNCHANGED <<curveVars, restVars, demandVars, serviceVars>>
SpecLink == InitLink /\ [][NextLink]_vars


\* The service constructed over both boards: one stored profile, the CPU
\* sensor reading 45 degrees, the walls at the running PWM of the boards,
\* flags and modes as the configuration file cfg gives them.
ProfileStore ==
    <<[name |-> "Fan Profile 1",
       curves |-> <<[sensor |-> "CPU: Core",
                     data |-> <<Pt(30, 2000), Pt(50, 10000)>>]>>]>>
ServiceReadings == [s \in SensorSet |-> IF s = "CPU: Core" THEN 45 ELSE None]
Configs ==
    { [automatic |-> FALSE, manual |-> [w \in Walls |-> TRUE]],
      [automatic |-> TRUE, manual |-> [w \in Walls |-> w # 1]] }
NoBudget ==
    [ticks |-> 0, requests |-> 0, moves |-> 0, sets |-> 0, autos |-> 0,
     fails |-> 0, switches |-> 0]

\* The PWM triples the boards of the checked services report at
\* construction.
ServicePwm == [b \in Boards |-> IF b = 1 THEN <<20, 60, 40>> ELSE <<40, 40, 40>>]

\* The service constructed over the boards P, which reported the triples
\* pwm (the entries of an absent board and its walls are never read).
InitServiceOver(P, pwm, cfg, B, s, a) ==
    /\ present = P
    /\ firmware = [b \in Boards |-> IF b = 1 THEN "2.2" ELSE "2.1"]
    /\ sem = [b \in Boards |-> 1]
    /\ port = [b \in Boards |-> "idle"]
    /\ wire = [b \in Boards |-> [cmd |-> "W", params |-> <<>>, by |-> "init"]]
    /\ overlap = FALSE
    /\ current = pwm
    /\ saved = current
    /\ running = current
    /\ rpm = [b \in Boards |-> 30 * 40]
    /\ watt = [b \in Boards |-> 7]
    /\ call = [t \in Threads |-> NoCall]
    /\ IdleCurve
    /\ profile = <<>> /\ demand = <<>> /\ readings = ServiceReadings
    /\ store = s
    /\ speed = [w \in Walls |-> running[BoardOf(w)][IF w = 4 THEN 3 ELSE w]]
    /\ manual = cfg.manual
    /\ assigned = a
    /\ updSem = [b \in Boards |-> 1]
    /\ flags = [programmatic |-> FALSE, automatic |-> cfg.automatic,
                active |-> cfg.automatic]
    /\ loop = "free"
    /\ pc = [t \in ServiceTasks |-> "idle"]
    /\ loc = [t \in {"auto", "set"} |-> <<>>]
    /\ budget = B
    /\ hist = [wins |-> [b \in Boards |-> 0],
               drops |-> [b \in Boards |-> 0],
               writes |-> [b \in Boards |-> 0],
               pushes |-> [b \in Boards |-> 0],
               atCall |-> [r \in RequestTasks |-> <<>>],
               failed |-> [b \in Boards |-> <<>>],
               applied |-> running,
               before |-> <<>>]

\* The service constructed over the stored profiles s with the walls bound
\* to the profile names a.
InitServiceWith(cfg, B, s, a) ==
    InitServiceOver(Boards, ServicePwm, cfg, B, s, a)

InitService(cfg, B) ==
    /\ InitServiceWith(cfg, B, ProfileStore,
                       [w \in Walls |-> "Fan Profile 1"])
    /\ IdleRest

\* Update requests of the user against both boards.
InitRequests ==
    \E cfg \in Configs :
        /\ ~cfg.automatic
        /\ InitService(cfg, [NoBudget EXCEPT !.requests = MaxRequests,
                                             !.moves = MaxMoves,
                                             !.fails = MaxFails])
NextRequests ==
    \/ \E r \in RequestTasks : \E b \in Boards : RequestStart(r, b)
    \/ \E r \in RequestTasks : \E b \in Boards : RequestGo(r, b)
    \/ \E r \in RequestTasks : \E b \in Boards : RequestEnd(r, b)
    \/ \E w \in Walls : \E v \in SliderValues : SliderMove(w, v)
    \/ \E r \in RequestTasks : TaskAcquire(r)
    \/ \E r \in RequestTasks : TaskWrite(r)
    \/ \E r \in RequestTasks : TaskRead(r)
SpecRequests == InitRequests /\ [][NextRequests]_vars

\* Reconciliation: timer ticks against a user who moves sliders and
\* switches the walls' modes and the automatic flag.
InitReconcile ==
    \E cfg \in Configs :
        /\ ~cfg.automatic
        /\ InitService(cfg, [NoBudget EXCEPT !.ticks = MaxTicks,
                                             !.moves = MaxMoves,
                                             !.fails = MaxFails,
                                             !.switches = MaxSwitches])
NextReconcile ==
    \/ TickStart
    \/ \E b \in Boards : TickAfterPull(b)
    \/ \E b \in Boards : TickAfterPush(b)
    \/ \E w \in Walls : \E v \in SliderValues : SliderMove(w, v)
    \/ \E w \in Walls : ToggleManual(w)
    \/ \E e \in BOOLEAN : set_automatic_control_enabled(e)
    \/ TaskAcquire("tick")
    \/ TaskWrite("tick")
    \/ TaskRead("tick")
SpecReconcile == InitReconcile /\ [][NextReconcile]_vars

\* Retrying: timer ticks next to an update request of the user, with the
\* outcome of every PWM command recorded.
InitRetry ==
    \E cfg \in Configs :
        /\ ~cfg.automatic
        /\ InitService(cfg, [NoBudget EXCEPT !.ticks = MaxTicks,
                                             !.requests = 1,
                                             !.moves = MaxMoves,
                                             !.fails = MaxFails])
NextRetry ==
    \/ TickStart
    \/ \E b \in Boards : TickAfterPull(b)
    \/ \E b \in Boards : TickAfterPush(b)
    \/ \E b \in Boards : RequestStart("req1", b)
    \/ \E b \in Boards : RequestGo("req1", b)
    \/ \E b \in Boards : RequestEnd("req1", b)
    \/ \E w \in Walls : \E v \in SliderValues : SliderMove(w, v)
    \/ \E t \in {"tick", "req1"} : TaskAcquire(t)
    \/ \E t \in {"tick", "req1"} : TaskWrite(t)
    \/ \E t \in {"tick", "req1"} : TaskReadRecorded(t)
SpecRetry == InitRetry /\ [][NextRetry]_vars

\* Saving: set_fan_speed and the discard dialog next to a tick, an update
\* request and the automatic update.
InitSave ==
    \E cfg \in Configs :
        InitService(cfg, [NoBudget EXCEPT !.ticks = 1,
                                          !.requests = 1,
                                          !.sets = MaxSets,
                                          !.autos = MaxAutos,
                                          !.fails = MaxFails,
                                          !.switches = MaxSwitches])
SaveThreads == {"tick", "req1", "auto", "set"}
NextSave ==
    \/ TickStart
    \/ \E b \in Boards : TickAfterPull(b)
    \/ \E b \in Boards : TickAfterPush(b)
    \/ RequestStart("req1", 1)
    \/ RequestGo("req1", 1)
    \/ RequestEnd("req1", 1)
    \/ AutoStart
    \/ AutoGo
    \/ AutoEnd
    \/ \E a \in SetArgs : SetStart(a)
    \/ \E b \in Boards : SetAfter(b)
    \/ dialog_handler_discard
    \/ ResetProgrammatic
    \/ \E t \in SaveThreads : TaskAcquire(t)
    \/ \E t \in SaveThreads : TaskWrite(t)
    \/ \E t \in SaveThreads : TaskRead(t)
SpecSave == InitSave /\ [][NextSave]_vars

\* The sensor service as TemperatureConfigManager.load_config loads
\* it: two hardware sensors with their last temperatures, and the drives.
InitialGroups ==
    [g \in {"CPU", "GPU"} |->
       [enabled |-> TRUE,
        sensors |-> IF g = "CPU"
                    THEN [n \in {"Core"} |-> Sensor("hwmon0/temp1_input", 450)]
                    ELSE [n \in {"Edge"} |-> Sensor("hwmon1/temp1_input", 380)]]]
InitialHardware ==
    [p \in HardwarePaths |-> IF p = "hwmon0/temp1_input" THEN 45000 ELSE Unreadable]
InitialDrives == [d \in DriveHashes |-> IF d = "d1" THEN 350 ELSE 410]
IdleOthers ==
    /\ IdleCurve /\ IdleDemand /\ IdleBoards /\ IdleService /\ IdleBackend
    /\ IdleFiles
OtherVars ==
    <<curveVars, demandVars, boardVars, serviceVars, backendVars, fileVars>>

\* Lookups of temperatures while drives and sensor files come and go.
InitSensors ==
    /\ IdleOthers
    /\ drivesList = InitialDrives
    /\ hwmon = InitialHardware
    /\ sensor_groups = InitialGroups
    /\ drive_monitors = <<NewMonitor("c1", "average", {"d1", "d2"}),
                           NewMonitor("c2", "maximum", {"d2"})>>
    /\ tempFile = SavedDocument(sensor_groups, drive_monitors)
    /\ looked = NoLook
NextSensors ==
    \/ \E ref \in References : GetSensorTemperature(ref) /\ UNCHANGED OtherVars
    \/ update_all_sensors /\ UNCHANGED OtherVars
    \/ \E d \in DriveHashes : DriveChange(d) /\ UNCHANGED OtherVars
    \/ \E p \in HardwarePaths : HardwareChange(p) /\ UNCHANGED OtherVars
SpecSensors == InitSensors /\ [][NextSensors]_vars

\* The registry of drive monitors under the editing of the curves' sensors.
InitMonitors ==
    /\ IdleOthers
    /\ drivesList = InitialDrives
    /\ hwmon = InitialHardware
    /\ sensor_groups = InitialGroups
    /\ drive_monitors = <<>>
    /\ tempFile = SavedDocument(sensor_groups, drive_monitors)
    /\ looked = NoLook
NextMonitors ==
    \/ \E m \in NewMonitors : add_drive_monitor(m) /\ UNCHANGED OtherVars
    \/ \E c \in CurveIds : remove_drive_monitor(c) /\ UNCHANGED OtherVars
    \/ \E c \in CurveIds : remove_drive_monitors_for_curve(c) /\ UNCHANGED OtherVars
SpecMonitors == InitMonitors /\ [][NextMonitors]_vars
-----------------------------------------------------------------------------
(* set_fan_speed and update_fan_speed over the whole range of row values *)

\* Row values of the checked calls: the ends of the range, a value inside
\* and the first value beyond it.
RowValues == {0, 37, 100, 101}

\* A thread that has not called the board yet calls set_fan_speed or
\* update_fan_speed with any rows (one call in a run).
CallWithAnyRows(t) ==
    /\ call[t] = NoCall
    /\ \E m \in {"set_fan_speed", "update_fan_speed"} :
          \E a \in [1..3 -> RowValues] : DirectCall(t, m, a)

InitParams ==
    InitBoards({1}) /\ IdleCurve /\ IdleDemand /\ IdleService /\ IdleRest
NextParams ==
    \/ CallWithAnyRows("t1") /\ UNCHANGED <<curveVars, restVars, demandVars, serviceVars>>
    \/ Acquire("t1") /\ UNCHANGED <<curveVars, restVars, demandVars, serviceVars>>
    \/ Write("t1") /\ UNCHANGED <<curveVars, restVars, demandVars, serviceVars>>
    \/ ReadAny("t1") /\ UNCHANGED <<curveVars, restVars, demandVars, serviceVars>>
SpecParams == InitParams /\ [][NextParams]_vars

-----------------------------------------------------------------------------
(* The profile store under its six editing operations *)

\* The service variables other than the store, for a run of the backend
\* alone.
IdleWalls ==
    /\ speed = <<>> /\ manual = <<>> /\ assigned = <<>>
    /\ updSem = <<>> /\ flags = <<>> /\ loop = "free"
    /\ pc = <<>> /\ loc = <<>> /\ budget = <<>> /\ hist = <<>>
WallsAndTasks ==
    <<wallVars, updSem, flags, loop, pc, loc, budget, hist>>
NotTheStore ==
    <<curveVars, demandVars, boardVars, WallsAndTasks, sensorVars, fileVars,
      profFile>>

InitProfiles ==
    /\ IdleCurve /\ IdleDemand /\ IdleBoards /\ IdleWalls /\ IdleSensors
    /\ IdleFiles
    /\ \E s \in {NoSensor, "CPU: Core"} : store = DefaultStore(s, 1)
    /\ nextId = 2
    /\ last = NoOp
    /\ profFile = ProfilesDocument(store)
NextProfiles ==
    \/ add_profile /\ UNCHANGED NotTheStore
    \/ \E id \in IdInputs(store) :
           remove_profile(id) /\ UNCHANGED NotTheStore
    \/ \E id \in IdInputs(store) : \E n \in ProfileNameInputs :
           rename_profile(id, n) /\ UNCHANGED NotTheStore
    \/ \E i \in DOMAIN store : add_curve(store[i].id) /\ UNCHANGED NotTheStore
    \/ \E i \in DOMAIN store : \E c \in IdInputs(store[i].curves) :
           remove_curve(store[i].id, c) /\ UNCHANGED NotTheStore
    \/ \E i \in DOMAIN store : \E c \in IdInputs(store[i].curves) :
           \E n \in CurveNameInputs :
               rename_curve(store[i].id, c, n) /\ UNCHANGED NotTheStore
SpecProfiles == InitProfiles /\ [][NextProfiles]_vars

\* Edits of the points of the curves of a store of one profile.
InitEdits ==
    /\ IdleCurve /\ IdleDemand /\ IdleBoards /\ IdleWalls /\ IdleSensors
    /\ IdleFiles
    /\ \E s \in {NoSensor, "CPU: Core"} : store = DefaultStore(s, 1)
    /\ nextId = 2
    /\ last = NoOp
    /\ profFile = ProfilesDocument(store)
NotTheBackend ==
    <<curveVars, demandVars, boardVars, WallsAndTasks, sensorVars, fileVars>>
NextEdits ==
    \/ \E i \in DOMAIN store : add_curve(store[i].id) /\ UNCHANGED NotTheStore
    \/ \E i \in DOMAIN store : \E c \in IdInputs(store[i].curves) :
         \E d \in EditData :
           set_curve_data(store[i].id, c, d) /\ UNCHANGED NotTheBackend
    \/ \E i \in DOMAIN store : \E e \in ChartEntries(store[i].curves) :
           save_current_profile_data(store[i].id, e)
           /\ UNCHANGED NotTheBackend
SpecEdits == InitEdits /\ [][NextEdits]_vars

-----------------------------------------------------------------------------
(* Renaming a profile under the reconciliation tick *)

\* Two stored profiles; at 45 degrees the first demands 80 %, the second
\* 35 %.
RenameStore ==
    <<[id |-> 1, name |-> "Fan Profile 1",
       curves |-> <<[id |-> 2, name |-> "Fan Curve 1", sensor |-> "CPU: Core",
                     data |-> <<Pt(30, 2000), Pt(50, 10000)>>]>>],
      [id |-> 3, name |-> "Fan Profile 2",
       curves |-> <<[id |-> 4, name |-> "Fan Curve 1", sensor |-> "CPU: Core",
                     data |-> <<Pt(30, 2000), Pt(50, 4000)>>]>>]>>
\* Wall 1 follows the first profile, the other walls the second.
RenameAssigned ==
    [w \in Walls |-> IF w = 1 THEN "Fan Profile 1" ELSE "Fan Profile 2"]
ProfileModeConfig == [automatic |-> FALSE, manual |-> [w \in Walls |-> FALSE]]

\* Everything a rename leaves alone.
NotRenamed ==
    <<curveVars, demandVars, boardVars, WallsAndTasks, sensorVars, fileVars>>

InitRename ==
    /\ InitServiceWith(ProfileModeConfig,
                       [NoBudget EXCEPT !.ticks = MaxTicks,
                                        !.fails = MaxFails],
                       RenameStore, RenameAssigned)
    /\ IdleSensors /\ IdleFiles
    /\ nextId = 4
    /\ last = NoOp
    /\ profFile = ProfilesDocument(RenameStore)
NextRename ==
    \/ TickStart
    \/ \E b \in Boards : TickAfterPull(b)
    \/ \E b \in Boards : TickAfterPush(b)
    \/ TaskAcquire("tick")
    \/ TaskWrite("tick")
    \/ TaskRead("tick")
    \/ \E id \in IdsOf(store) : \E n \in ProfileNameInputs :
          /\ loop = "free"
          /\ rename_profile(id, n)
          /\ UNCHANGED <<NotRenamed, profFile>>
    \/ \E id \in IdsOf(store) : \E n \in ProfileNameInputs :
          /\ loop = "free"
          /\ save_profile_name(id, n)
          /\ UNCHANGED NotRenamed
SpecRename == InitRename /\ [][NextRename]_vars

-----------------------------------------------------------------------------
(* Saving the store and constructing the backend anew *)

\* Sensor bindings a user gives a curve.
SensorInputs == {NoSensor, "CPU: Core", "GPU: Edge", StaleSensor, DriveSensor}

\* The process is started again: a new backend is constructed over the
\* file.  globals.drivesList is still None then (initDrives runs last).
Restart ==
    /\ construct_backend
    /\ last' = Returned("restart", 0, 0, "", TRUE, 0)
    /\ UNCHANGED NotTheBackend

InitRestart ==
    /\ IdleCurve /\ IdleDemand /\ IdleBoards /\ IdleWalls /\ IdleFiles
    /\ drivesList = <<>>
    /\ hwmon \in [HardwarePaths -> {NoFile, 45000}]
    /\ sensor_groups = InitialGroups
    /\ drive_monitors = <<NewMonitor("c1", "average", {"d1", "d2"})>>
    /\ tempFile = SavedDocument(sensor_groups, drive_monitors)
    /\ looked = NoLook
    /\ store = create_default_profile(1, get_available_temperature_sensors)
    /\ nextId = 2
    /\ last = NoOp
    /\ profFile = ProfilesDocument(store)
NextRestart ==
    \/ \E i \in DOMAIN store : add_curve(store[i].id) /\ UNCHANGED NotTheStore
    \/ \E i \in DOMAIN store : \E c \in IdsOf(store[i].curves) :
         \E s \in SensorInputs :
           set_curve_sensor(store[i].id, c, s) /\ UNCHANGED NotTheBackend
    \/ save_to_config /\ UNCHANGED NotTheBackend
    \/ Restart
    \/ \E path \in HardwarePaths :
           HardwareChange(path) /\ UNCHANGED OtherVars
SpecRestart == InitRestart /\ [][NextRestart]_vars

-----------------------------------------------------------------------------
(* Modes and bindings of the walls across a restart of the service *)

\* The service is constructed again over the boards and the file.
RestartService ==
    /\ loop = "free"
    /\ construct_service
    /\ last' = Returned("restart", 0, 0, "", TRUE, 0)
    /\ UNCHANGED <<loop, pc, loc, budget, hist, store>>

NotTheWalls ==
    <<curveVars, demandVars, boardVars, sensorVars, store, updSem, flags,
      loop, pc, loc, budget, hist, nextId, profFile, layoutFile, layout>>

\* A fresh installation with both boards: the file written at the first
\* start, every wall in manual mode on the first profile.
InitWalls ==
    /\ InitServiceWith([automatic |-> FALSE, manual |-> [w \in Walls |-> TRUE]],
                       [NoBudget EXCEPT !.moves = MaxMoves],
                       RenameStore, [w \in Walls |-> "Fan Profile 1"])
    /\ IdleSensors
    /\ nextId = 4 /\ last = NoOp /\ profFile = ProfilesDocument(RenameStore)
    /\ fanFile = DefaultFanDocument
    /\ layoutFile = <<>> /\ layout = <<>>
NextWalls ==
    \/ \E w \in WallInputs : \E m \in BOOLEAN :
          set_manual_mode(w, m) /\ UNCHANGED NotTheWalls
    \/ \E w \in WallInputs : \E n \in ProfileInputs :
          assign_profile_to_wall(w, n) /\ UNCHANGED NotTheWalls
    \/ \E v \in SliderValues : SliderMove(1, v) /\ UNCHANGED last
    \/ RestartService
         /\ UNCHANGED <<curveVars, demandVars, boardVars, sensorVars, nextId,
                        profFile, layoutFile, layout>>
SpecWalls == InitWalls /\ [][NextWalls]_vars

-----------------------------------------------------------------------------
(* Starting the process over files that may be missing or damaged *)

\* The steps of the start-up in the order of main.py, "kill" for a process
\* that is not running.
StartupOrder ==
    <<"initLayout", "initTempBackend", "initFanProfileBackend",
      "initFanControlService">>
Step(op) == last' = Returned(op, 0, 0, "", TRUE, 0)

BoardsOnly == <<curveVars, demandVars, boardVars>>
TasksOnly == <<loop, pc, loc, budget, hist>>

initLayout ==
    /\ last.op = "kill" /\ Step("initLayout")
    /\ construct_chassis
    /\ UNCHANGED <<BoardsOnly, serviceVars, sensorVars, nextId, profFile,
                   fanFile>>
initTempBackend ==
    /\ last.op = "initLayout" /\ Step("initTempBackend")
    /\ construct_sensor_service
    /\ UNCHANGED <<BoardsOnly, serviceVars, drivesList, hwmon, looked, nextId,
                   profFile, fileVars>>
initFanProfileBackend ==
    /\ last.op = "initTempBackend" /\ Step("initFanProfileBackend")
    /\ construct_backend
    /\ UNCHANGED <<BoardsOnly, WallsAndTasks, sensorVars, fileVars>>
initFanControlService ==
    /\ last.op = "initFanProfileBackend" /\ Step("initFanControlService")
    /\ construct_service
    /\ UNCHANGED <<BoardsOnly, TasksOnly, store, sensorVars, nextId, profFile,
                   layoutFile, layout>>

\* The process ends.
Kill ==
    /\ last.op = "initFanControlService" /\ Step("kill")
    /\ UNCHANGED <<BoardsOnly, serviceVars, sensorVars, nextId, profFile,
                   fileVars>>
\* While the process is down a file is deleted or overwritten with text
\* that is not JSON.
DamageLayout(d) ==
    /\ last.op = "kill" /\ layoutFile # d /\ layoutFile' = d
    /\ UNCHANGED <<BoardsOnly, serviceVars, sensorVars, backendVars, fanFile,
                   layout>>
DamageSensors(d) ==
    /\ last.op = "kill" /\ tempFile # d /\ tempFile' = d
    /\ UNCHANGED <<BoardsOnly, serviceVars, drivesList, hwmon, sensor_groups,
                   drive_monitors, looked, backendVars, fileVars>>
DamageProfiles(d) ==
    /\ last.op = "kill" /\ profFile # d /\ profFile' = d
    /\ UNCHANGED <<BoardsOnly, serviceVars, sensorVars, nextId, last,
                   fileVars>>
DamageWalls(d) ==
    /\ last.op = "kill" /\ fanFile # d /\ fanFile' = d
    /\ UNCHANGED <<BoardsOnly, serviceVars, sensorVars, backendVars,
                   layoutFile, layout>>

\* Before the first start: no file exists; the memory of the process is
\* written by the start-up before anything reads it.
InitStartup ==
    /\ InitServiceWith([automatic |-> FALSE, manual |-> [w \in Walls |-> TRUE]],
                       NoBudget, <<>>, [w \in Walls |-> ""])
    /\ drivesList = <<>> /\ hwmon = InitialHardware
    /\ sensor_groups = <<>> /\ drive_monitors = <<>> /\ looked = NoLook
    /\ layout = DefaultLayout
    /\ nextId = 0
    /\ last = Returned("kill", 0, 0, "", TRUE, 0)
    /\ tempFile = Missing /\ profFile = Missing /\ fanFile = Missing
    /\ layoutFile = Missing
NextStartup ==
    \/ initLayout
    \/ initTempBackend
    \/ initFanProfileBackend
    \/ initFanControlService
    \/ Kill
    \/ \E d \in {Missing, Invalid} : DamageLayout(d)
    \/ \E d \in {Missing, Invalid} : DamageSensors(d)
    \/ \E d \in {Missing, Invalid} : DamageProfiles(d)
    \/ \E d \in {Missing, Invalid} : DamageWalls(d)
SpecStartup == InitStartup /\ [][NextStartup]_vars

-----------------------------------------------------------------------------
(* The power readings of a board of hardware revision 2.2 *)

\* The board at location 1 after construction over a reply to W: of zeros.
InitPower ==
    /\ IdleCurve /\ IdleDemand /\ IdleService /\ IdleRest
    /\ present = {1}
    /\ firmware = [b \in Boards |-> "2.1"]
    /\ sem = [b \in Boards |-> 1]
    /\ port = [b \in Boards |-> "idle"]
    /\ wire = [b \in Boards |-> [cmd |-> "W", params |-> <<>>, by |-> "init"]]
    /\ overlap = FALSE
    /\ current \in [Boards -> InitialPwm]
    /\ saved = current
    /\ running = current
    /\ rpm = [b \in Boards |-> 30 * 40]
    /\ watt = [b \in Boards |-> calculate_wattage_22(<<0, 0, 0, 0>>)]
    /\ call = [t \in Threads |-> NoCall]
PowerFrame == <<curveVars, restVars, demandVars, serviceVars>>
NextPower ==
    \/ DirectCall("t1", "update_powerboard_state", <<>>) /\ UNCHANGED PowerFrame
    \/ Acquire("t1") /\ UNCHANGED PowerFrame
    \/ Write("t1") /\ UNCHANGED PowerFrame
    \/ (call["t1"].cmd = COMMANDS.get_tach
          /\ \E o \in Outcomes : Read("t1", o, 40)) /\ UNCHANGED PowerFrame
    \/ ReadPower("t1") /\ UNCHANGED PowerFrame
SpecPower == InitPower /\ [][NextPower]_vars

-----------------------------------------------------------------------------
(* Manual walls from start-up on, and walls switched to manual mode *)

\* What board 1 reports at construction: the rows at 20 % or more, or
\* row 1 at 10 %.
BootPwm == {<<20, 60, 40>>, <<10, 60, 40>>}
\* One stored profile that demands 15 % at every temperature.
LowStore ==
    <<[name |-> "Fan Profile 1",
       curves |-> <<[sensor |-> "CPU: Core",
                     data |-> <<Pt(30, 1500), Pt(50, 1500)>>]>>]>>
\* The modes of the walls in the configuration file: all manual (the
\* default), or wall 1 in profile mode.
ManualConfigs ==
    { [automatic |-> FALSE, manual |-> [w \in Walls |-> TRUE]],
      [automatic |-> FALSE, manual |-> [w \in Walls |-> w # 1]] }

InitManual ==
    \E pwm \in BootPwm : \E cfg \in ManualConfigs :
        /\ InitServiceOver(Boards, [ServicePwm EXCEPT ![1] = pwm], cfg,
                           [NoBudget EXCEPT !.ticks = MaxTicks,
                                            !.moves = MaxMoves,
                                            !.switches = MaxSwitches],
                           LowStore, [w \in Walls |-> "Fan Profile 1"])
        /\ IdleRest
NextManual ==
    \/ TickStart
    \/ \E b \in Boards : TickAfterPull(b)
    \/ \E b \in Boards : TickAfterPush(b)
    \/ TaskAcquire("tick")
    \/ TaskWrite("tick")
    \/ TaskRead("tick")
    \/ \E v \in SliderValues : SliderMove(1, v)
    \/ ToggleManual(1)
SpecManual == InitManual /\ [][NextManual]_vars

-----------------------------------------------------------------------------
(* The tick over both boards, or over board 2 alone *)

InitAux ==
    \E P \in {{1, 2}, {2}} :
        /\ InitServiceOver(P, ServicePwm,
                           [automatic |-> FALSE,
                            manual |-> [w \in Walls |-> TRUE]],
                           [NoBudget EXCEPT !.ticks = MaxTicks,
                                            !.moves = MaxMoves],
                           ProfileStore, [w \in Walls |-> "Fan Profile 1"])
        /\ IdleRest
NextAux ==
    \/ TickStart
    \/ \E b \in Boards : TickAfterPull(b)
    \/ \E b \in Boards : TickAfterPush(b)
    \/ TaskAcquire("tick")
    \/ TaskWrite("tick")
    \/ TaskRead("tick")
    \/ \E v \in SliderValues : SliderMove(4, v)
SpecAux == InitAux /\ [][NextAux]_vars


-----------------------------------------------------------------------------
(* The construction of the Powerboard at location 1 *)

\* Replies to V: (hardware revision, firmware version, location) and to P:
\* (the PWM values of the three pins; the last one is no byte).
MetadataReplies == {<<"2.1", "2.1", 1>>, <<"2.2", "2.2", 1>>,
                    <<"2.2", "2.3", 1>>}
PwmReplies == {<<0, 128, 255>>, <<51, 153, 102>>, <<26, 255, 77>>,
               <<300, 0, 0>>}

InitConstruct ==
    /\ IdleCurve /\ IdleDemand /\ IdleService /\ IdleRest
    /\ present = {}
    /\ firmware = [b \in Boards |-> ""]
    /\ sem = [b \in Boards |-> 1]
    /\ port = [b \in Boards |-> "idle"]
    /\ wire = [b \in Boards |-> [cmd |-> "", params |-> <<>>, by |-> ""]]
    /\ overlap = FALSE
    /\ current = [b \in Boards |-> Unassigned]
    /\ saved = [b \in Boards |-> Unassigned]
    /\ running = [b \in Boards |-> Unassigned]
    /\ rpm = [b \in Boards |-> None]
    /\ watt = [b \in Boards |-> None]
    /\ call = [t \in Threads |-> NoCall]
ConstructFrame ==
    <<curveVars, demandVars, restVars, wallVars, store, updSem, flags, loop,
      pc, loc, budget>>
\* hist keeps the reply to P: the constructor read.
NextConstruct ==
    \/ ConstructStart("t1", 1) /\ UNCHANGED <<ConstructFrame, hist>>
    \/ Acquire("t1") /\ UNCHANGED <<ConstructFrame, hist>>
    \/ Write("t1") /\ UNCHANGED <<ConstructFrame, hist>>
    \/ (\E o \in Outcomes : \E m \in MetadataReplies :
            ConstructReadMetadata("t1", o, m))
          /\ UNCHANGED <<ConstructFrame, hist>>
    \/ (\E o \in Outcomes : \E r \in PwmReplies :
            ConstructReadPwm("t1", o, r) /\ hist' = <<r>>)
          /\ UNCHANGED ConstructFrame
    \/ (\E o \in Outcomes : ConstructReadUpdate("t1", o))
          /\ UNCHANGED <<ConstructFrame, hist>>
    \/ ConstructReadState("t1") /\ UNCHANGED <<ConstructFrame, hist>>
SpecConstruct == InitConstruct /\ [][NextConstruct]_vars

-----------------------------------------------------------------------------
(* The two computations of a profile's demand *)

NextCompare ==
    CalculateBoth /\ UNCHANGED <<curveVars, restVars, boardVars, serviceVars>>
SpecCompare == InitDemandOnly /\ [][NextCompare]_vars

-----------------------------------------------------------------------------
(* The settings page saves PWM values between two ticks *)

\* All walls manual; the boards reported 20, 60, 40 and 60, 60, 60.  The
\* timer fires while no set_fan_speed is under way, and the settings page
\* calls set_fan_speed while no tick is.
InitSettings ==
    /\ InitServiceOver(Boards, [ServicePwm EXCEPT ![2] = <<60, 60, 60>>],
                       [automatic |-> FALSE,
                        manual |-> [w \in Walls |-> TRUE]],
                       [NoBudget EXCEPT !.ticks = MaxTicks,
                                        !.sets = MaxSets,
                                        !.fails = MaxFails],
                       ProfileStore, [w \in Walls |-> "Fan Profile 1"])
    /\ IdleRest
NextSettings ==
    \/ pc["set"] = "idle" /\ TickStart
    \/ \E b \in Boards : TickAfterPull(b)
    \/ \E b \in Boards : TickAfterPush(b)
    \/ pc["tick"] = "idle" /\ \E a \in SetArgs : SetStart(a)
    \/ \E b \in Boards : SetAfter(b)
    \/ \E t \in {"tick", "set"} : TaskAcquire(t)
    \/ \E t \in {"tick", "set"} : TaskWrite(t)
    \/ \E t \in {"tick", "set"} : TaskRead(t)
SpecSettings == InitSettings /\ [][NextSettings]_vars
-----------------------------------------------------------------------------
(* Claims about the curve model *)

\* r is num/den (hundredths of a percent) rounded to 0.1 percent.
IsRoundedToTenth(r, num, den) ==
    /\ r % Tenth = 0
    /\ 2 * Abs(r * den - num) <= Tenth * den

\* The returned value is a speed read off the well-formed curve c at t, with
\* exactness at the breakpoints as given by AtBreakpoint(r, y).
CurveEvaluation(AtBreakpoint(_, _), Between(_, _, _)) ==
    (result # <<>> /\ WellFormed(curve_data)) =>
        LET c == curve_data
            n == Len(c)
            t == temperature
            r == result[1]
        IN  /\ t <= c[1].x => r = c[1].y
            /\ t >= c[n].x => r = c[n].y
            /\ \A i \in 2..(n - 1) : t = c[i].x => AtBreakpoint(r, c[i].y)
            /\ \A i \in 1..(n - 1) :
                  (c[i].x < t /\ t < c[i + 1].x) =>
                    /\ IsRoundedToTenth(r,
                          c[i].y * (c[i + 1].x - c[i].x)
                            + (c[i + 1].y - c[i].y) * (t - c[i].x),
                          c[i + 1].x - c[i].x)
                    /\ Between(r, c[i].y, c[i + 1].y)

ExactlyY(r, y) == r = y
RoundedY(r, y) == IsRoundedToTenth(r, y, 1)
StrictlyBetween(r, ya, yb) == Min2(ya, yb) <= r /\ r <= Max2(ya, yb)
BetweenRounded(r, ya, yb) ==
    /\ 2 * (Min2(ya, yb) - r) <= Tenth
    /\ 2 * (r - Max2(ya, yb)) <= Tenth

ReadableCurves ==
    {i \in 1..Len(profile) :
        /\ profile[i].sensor # NoSensor
        /\ readings[profile[i].sensor] # None}

\* C9: the demand computed by _calculate_max_speed_from_profile is the
\* maximum of the curve evaluations over exactly the curves that have a
\* sensor and a readable temperature, and 50 % when there is no such curve.
C9_DemandIsMax ==
    demand # <<>> =>
        IF ReadableCurves = {} THEN demand[1] = SafeDefault
        ELSE \E e \in [ReadableCurves ->
                          UNION {interpolate_fan_speed(profile[i].data,
                                     readings[profile[i].sensor]) :
                                 i \in ReadableCurves}] :
               /\ \A i \in ReadableCurves :
                     e[i] \in interpolate_fan_speed(profile[i].data,
                                  readings[profile[i].sensor])
               /\ \E i \in ReadableCurves : demand[1] = e[i]
               /\ \A i \in ReadableCurves : e[i] <= demand[1]

\* C9 witness: a demand computed from two readable curves, below the safe
\* default, next to a curve without sensor or reading.
C9_Witness ==
    /\ demand # <<>>
    /\ Cardinality(ReadableCurves) >= 2
    /\ demand[1] < SafeDefault
-----------------------------------------------------------------------------
(* Claims about the Powerboard link *)

\* The threads whose command has been written to board b's port and whose
\* reply line has not been read yet.
Outstanding(b) == {t \in Threads : call[t].b = b /\ call[t].stage = "sent"}

\* C1: at most one request is outstanding on a board at any time: no thread
\* writes a command between another thread's write and that thread's read
\* of its reply.
C1_OneOutstanding ==
    /\ ~overlap
    /\ \A b \in Boards : Cardinality(Outstanding(b)) <= 1

\* C1 witness: one thread's command awaits its reply while another thread
\* has called a method of the same board and waits at the semaphore.
C1_Witness ==
    \E t, u \in LinkThreads :
        /\ t # u
        /\ call[t].stage = "sent" /\ call[t].cmd = "W"
        /\ call[u].stage = "enter" /\ call[u].b = call[t].b
        /\ call[u].method = "update_fan_speed"

-----------------------------------------------------------------------------
(* Claims about the update requests *)

\* The update requests past the acquire that have not written their U: yet.
YetToWrite(b) ==
    {r \in InFlight(b) : pc[r] = "wait" \/ call[r].stage \in {"enter", "locked"}}

\* C2: a request that fails the non-blocking acquire of the board's update
\* semaphore goes no further, so at most one request per board is past the
\* acquire; each winner writes at most one U:, so the U: writes of this
\* path, with the winners that may still write, never exceed the wins.
C2_WritesWithinWins ==
    \A b \in Boards :
        /\ Cardinality(InFlight(b)) <= 1
        /\ InFlight(b) # {} => updSem[b] = 0
        /\ hist.writes[b] + Cardinality(YetToWrite(b)) <= hist.wins[b]

\* C2 witness: on board 2 one request has won and written its U: and
\* another was dropped, and a request of board 1 has written its U:.
C2_Witness ==
    /\ hist.drops[2] >= 1
    /\ hist.wins[2] = 1 /\ hist.writes[2] = 1
    /\ hist.writes[1] = 1

\* C3: a step that drops a request touches neither the calls nor the port;
\* a request resumes only once its acquire of the link semaphore has
\* completed, the triple it then hands to update_fan_speed is the slider
\* triple of that moment, and that is the triple its U: carries.
C3_SendsLatest ==
    [][\A r \in RequestTasks :
          /\ (\E b \in Boards : hist'.drops[b] > hist.drops[b])
                => UNCHANGED <<call, wire, port, pc>>
          /\ (pc[r] = "wait" /\ pc'[r] = "send")
                => /\ call[r].stage = "ok"
                   /\ call'[r].args = Sliders(call[r].b)
          /\ (call[r].stage = "locked" /\ call'[r].stage = "sent")
                => /\ call[r].cmd = "U"
                   /\ wire'[call[r].b].params =
                          UpdateParams(firmware[call[r].b], call[r].args)
                   /\ wire'[call[r].b].by = r
      ]_vars

\* C3 witness: after a dropped request and the release by the winner, the
\* next winner has written a triple that differs from the sliders' values
\* at the time it was called.
C3_Witness ==
    \E r \in RequestTasks :
        /\ hist.drops[1] >= 1 /\ hist.wins[1] >= 2
        /\ pc[r] = "send" /\ call[r].stage = "sent" /\ call[r].b = 1
        /\ call[r].args # hist.atCall[r]
        /\ wire[1].params = UpdateParams(firmware[1], Sliders(1))

-----------------------------------------------------------------------------
(* Claims about failures, reconciliation and saving *)

\* C4 as stated: when the F: of FanControlService.set_fan_speed has failed,
\* the board's saved PWM is what it was before set_fan_speed began.
C4_AsStated ==
    (pc["set"] \in {"f1", "f2"} /\ call["set"].stage = "err")
        => saved[call["set"].b] = hist.before

\* The step in which a tick, back from update_powerboard_state of board b,
\* compares the targets with the running PWM.
TickCompares(b) ==
    /\ pc["tick"] = (IF b = 1 THEN "pull1" ELSE "pull2")
    /\ call["tick"].stage = "ok" /\ loop = "free"
    /\ pc'["tick"] # pc["tick"]
\* The tick goes on to push a U: to board b.
TickPushes(b) ==
    /\ pc'["tick"] = (IF b = 1 THEN "push1" ELSE "push2")
    /\ call'["tick"].cmd = "U" /\ call'["tick"].b = b

\* C5 as stated: when a U: to board b failed, the targets are still those
\* of the time of the failure and differ from the PWM the board last
\* acknowledged, the next tick that compares pushes a U: to board b.
C5_AsStated ==
    [][\A b \in Boards :
          (/\ TickCompares(b)
           /\ hist.failed[b] = <<TargetTriple(b)>>
           /\ TargetTriple(b) # hist.applied[b])
             => TickPushes(b)
      ]_vars

\* The channels of its board that a wall drives.
ChannelsOf(w) == IF w = 4 THEN {1, 2, 3} ELSE {w}
\* The target of some wall of board b differs from the running PWM.
Differs(b) ==
    \E w \in WallsOf(b) : \E ch \in ChannelsOf(w) : speed[w] # running[b][ch]

\* C6: a tick goes on to push to board b only when the target of some wall
\* of b differs from the running PWM (when all are equal it does not
\* push); it pushes with U:, and the U: it writes carries the current
\* target of every wall of the board.
C6_PushesDifferences ==
    [][\A b \in Boards :
          /\ (TickCompares(b) /\ TickPushes(b))
                => Differs(b) /\ call'["tick"].args = TargetTriple(b)
          /\ (TickCompares(b) /\ ~Differs(b))
                => pc'["tick"] \notin {"push1", "push2"} \/ ~TickPushes(b)
          /\ (call["tick"].b = b /\ call["tick"].stage = "locked"
              /\ call'["tick"].stage = "sent" /\ pc["tick"] \in {"push1", "push2"})
                => /\ wire'[b].cmd = "U"
                   /\ wire'[b].params = UpdateParams(firmware[b], TargetTriple(b))
      ]_vars

\* C6 witness: ticks have pushed to both boards.
C6_Witness == hist.pushes[1] >= 1 /\ hist.pushes[2] >= 1

\* C7: a step that writes F: is a step of the set_fan_speed task, and a
\* step that changes a board's saved PWM is a step of that task too: ticks,
\* update requests and automatic updates do neither.
C7_OnlySetSaves ==
    [][/\ \A t \in ServiceTasks :
            (call[t].stage = "locked" /\ call'[t].stage = "sent"
             /\ call[t].cmd = "F") => t = "set"
       /\ saved' # saved
            => \/ pc'["set"] # pc["set"]
               \/ call["set"].stage = "sent" /\ call'["set"].stage # "sent"
      ]_vars

\* C7 witness: a tick, an update request and the automatic update have
\* written their U:, set_fan_speed has not been called, and the saved PWM
\* is the one read at construction.
C7_Witness ==
    /\ hist.pushes[1] >= 1
    /\ hist.writes[1] >= 2
    /\ budget.sets = MaxSets
    /\ saved = current

\* C8 as stated: while automatic_control_enabled is false no step changes
\* the target of a wall in profile mode.
C8_AsStated ==
    [][~flags.automatic
          => \A w \in Walls : ~manual[w] => speed'[w] = speed[w]
      ]_vars
-----------------------------------------------------------------------------
(* Claims about the sensor service *)

\* The step is a call of get_sensor_temperature.
Looks == looked' # looked /\ Len(looked'.ref) > 0 /\ looked'.ref[1] # "add"
            /\ looked'.ref[1] # "remove" /\ looked'.ref[1] # "remove_for_curve"

\* C11 as stated: a lookup of a monitor's own reference, made while none of
\* its selected drives is registered with a temperature above 0, yields
\* no value.
C11_AsStated ==
    [][\A i \in 1..Len(drive_monitors) :
          (/\ Looks
           /\ looked'.ref = DriveRef(drive_monitors[i].name)
           /\ drive_monitors[i].enabled
           /\ DOMAIN get_drive_temperatures(drive_monitors[i]) = {})
             => looked'.value = None
      ]_vars

\* C12 as stated: a lookup of the qualified name of an enabled sensor whose
\* hardware file cannot be read yields no value.
C12_AsStated ==
    [][\A g \in DOMAIN sensor_groups : \A n \in DOMAIN sensor_groups[g].sensors :
          (/\ Looks
           /\ looked'.ref = SensorRef(g, n)
           /\ sensor_groups[g].sensors[n].enabled
           /\ read_hardware_temperature(sensor_groups[g].sensors[n]) = {None})
             => looked'.value = None
      ]_vars

\* C13: the registry never holds two monitors of one curve id; after
\* add_drive_monitor of a monitor with a curve id the only monitor of that
\* curve is the one added, the other curves keeping theirs; and
\* add_drive_monitor of a monitor without curve id changes nothing.
C13_OnePerCurve ==
    [][/\ \A i, j \in 1..Len(drive_monitors') :
             drive_monitors'[i].curve_id = drive_monitors'[j].curve_id => i = j
       /\ \A c \in CurveIds :
             (looked'.ref = <<"add", c>> /\ looked' # looked)
                => \E i \in 1..Len(drive_monitors') :
                      /\ drive_monitors'[i].curve_id = c
                      /\ looked'.arg = <<drive_monitors'[i]>>
                      /\ \A j \in 1..Len(drive_monitors) :
                            drive_monitors[j].curve_id # c
                               => \E k \in 1..Len(drive_monitors') :
                                     drive_monitors'[k] = drive_monitors[j]
       /\ (looked'.ref = <<"add", "">>)
             => UNCHANGED <<drive_monitors, tempFile>>
      ]_vars

\* C13 witness: a curve's monitor was replaced by another one while the
\* other curve kept its monitor.
C13_Witness ==
    /\ Len(drive_monitors) = 2
    /\ looked.ref = <<"add", "c1">>
    /\ drive_monitors[1].curve_id = "c1"
    /\ drive_monitors[1].aggregation_mode = "maximum"
    /\ drive_monitors[2].curve_id = "c2"
    /\ tempFile.drive_monitors = drive_monitors
-----------------------------------------------------------------------------
(* Claims about the command lines of the Powerboard *)

-----------------------------------------------------------------------------
(* Claims about the profile store *)

Distinct(items) ==
    \A i, j \in DOMAIN items : items[i].name = items[j].name => i = j

\* Whether the call recorded in c would break the invariants in the store
\* s: a duplicate name, the removal of the last profile or curve, an
\* unknown identifier.
WouldBreak(s, c) ==
    LET p == PosOf(s, c.pid)
    IN  CASE c.op = "remove_profile" -> Len(s) <= 1 \/ p = 0
          [] c.op = "rename_profile" -> p = 0 \/ c.name \in NamesOf(s)
          [] c.op = "remove_curve" ->
                Len(s[p].curves) <= 1 \/ PosOf(s[p].curves, c.cid) = 0
          [] c.op = "rename_curve" ->
                \/ PosOf(s[p].curves, c.cid) = 0
                \/ c.name \in NamesOf(s[p].curves)
          [] OTHER -> FALSE

\* C14: through add_profile, remove_profile, rename_profile, add_curve,
\* remove_curve and rename_curve the store keeps at least one profile,
\* every profile at least one curve, profile names pairwise distinct and
\* the curve names of a profile pairwise distinct; a call that would break
\* this returns False, and a call that returns False leaves the store as it
\* was.
C14_StoreInvariants ==
    [][/\ Len(store') >= 1
       /\ Distinct(store')
       /\ \A i \in DOMAIN store' :
             Len(store'[i].curves) >= 1 /\ Distinct(store'[i].curves)
       /\ WouldBreak(store, last') => ~last'.ret
       /\ ~last'.ret => store' = store
      ]_vars

\* C14 witness: two profiles of two curves each; the last call, a rename
\* of the second profile to the name of the first, returned False.
C14_Witness ==
    /\ Len(store) = 2
    /\ Len(store[1].curves) = 2 /\ Len(store[2].curves) = 2
    /\ last.op = "rename_profile" /\ last.pid = store[2].id
    /\ last.name = store[1].name
    /\ ~last.ret

\* What the evaluator assumes of a curve: at least 2 points, strictly
\* increasing x, every y within 0..100 %.
CurveInvariants(data) ==
    /\ WellFormed(data)
    /\ \A i \in DOMAIN data : data[i].y >= 0 /\ data[i].y <= 10000

\* C15: after any edit of the points of a curve (set_curve_data, saving
\* the chart data) every stored curve has at least 2 points, strictly
\* increasing x and every y within 0..100.
C15_AsStated ==
    \A i \in DOMAIN store : \A c \in DOMAIN store[i].curves :
        CurveInvariants(store[i].curves[c].data)

\* The identifier of the profile wall w is bound to when the service
\* starts (no wall is assigned another profile in these runs).
BoundAtStart(w) ==
    LET i == CHOOSE k \in DOMAIN RenameStore :
                 RenameStore[k].name = RenameAssigned[w]
    IN  RenameStore[i].id

\* The tick recomputes the walls in this step.
Recomputes ==
    /\ pc["tick"] # "idle" /\ pc'["tick"] = "idle"
    /\ call["tick"].stage # "err"

\* C16: renaming a profile changes its name only: whenever a tick
\* recomputes a wall in profile mode, the profile the wall is bound to is
\* found (it is not missing) and the wall stays bound to the profile of the
\* identifier it was bound to before the rename.
C16_AsStated ==
    [][Recomputes =>
         \A w \in Walls :
             (HasWall(w) /\ ~manual[w]) =>
                 /\ assigned[w] \in ProfileNames
                 /\ assigned'[w] \in ProfileNames
                 /\ ProfileIdByName(assigned'[w]) = BoundAtStart(w)
      ]_vars

\* C17: a store with unique profile names that is saved with
\* save_to_config and loaded by a newly constructed backend comes back
\* with the same profile ids, curve ids, names, points and sensor
\* bindings: a curve without sensor stays without, a "Drives." binding is
\* kept verbatim.
C17_AsStated ==
    [][(last.op = "save_to_config" /\ last'.op = "restart"
        /\ Distinct(store)) => store' = store]_vars

-----------------------------------------------------------------------------
(* Claims about the configuration files *)

WallCalls == {"set_manual_mode", "assign_profile_to_wall"}

\* C18: when the service is restarted after a successful set_manual_mode
\* or assign_profile_to_wall, every wall has the mode and the assigned
\* profile it had, and its speed is the running PWM of its board, not the
\* current_speed of the file; a call for an unknown wall or an unknown
\* profile returns False and changes neither the walls nor the file.
C18_Restored ==
    [][/\ (last.op \in WallCalls /\ last.ret /\ last'.op = "restart") =>
            \A w \in FanWalls :
                /\ manual'[w] = manual[w]
                /\ assigned'[w] = assigned[w]
                /\ speed'[w] = running[BoardOf(w)][ChannelOf(w)]
       /\ (last' # last /\ last'.op \in WallCalls) =>
            /\ last'.pid \notin FanWalls => ~last'.ret
            /\ (last'.op = "assign_profile_to_wall" /\ last'.name # ""
                /\ last'.name \notin ProfileNames) => ~last'.ret
            /\ ~last'.ret => UNCHANGED <<wallVars, fanFile>>
      ]_vars

\* C18 witness: after the restart wall 1 is in profile mode as saved and
\* wall 4 on the second profile as saved, and wall 1 runs at the 20 % of
\* its board although the file holds a current_speed of 60.
C18_Witness ==
    /\ last.op = "restart"
    /\ ~manual[1] /\ assigned[4] = "Fan Profile 2"
    /\ fanFile.state = "ok" /\ "1" \in DOMAIN fanFile.fan_walls
    /\ fanFile.fan_walls["1"].current_speed = 60
    /\ speed[1] = 20

\* C19: a component that finds invalid JSON in its configuration file
\* starts with its default document and writes that default document back
\* to the file, so that the file parses at the next load.
C19_AsStated ==
    [][/\ (last'.op = "initLayout" /\ last.op = "kill"
           /\ layoutFile = Invalid) =>
              layout' = DefaultLayout /\ layoutFile'.state = "ok"
       /\ (last'.op = "initTempBackend" /\ last.op = "initLayout"
           /\ tempFile = Invalid) =>
              sensor_groups' = get_default_config /\ tempFile'.state = "ok"
       /\ (last'.op = "initFanProfileBackend" /\ last.op = "initTempBackend"
           /\ profFile = Invalid) =>
              Len(store') = 1 /\ profFile'.state = "ok"
       /\ (last'.op = "initFanControlService"
           /\ last.op = "initFanProfileBackend" /\ fanFile = Invalid) =>
              flags' = DefaultFlags /\ fanFile'.state = "ok"
      ]_vars

-----------------------------------------------------------------------------
(* Claims about the power readings and the construction of a board *)

\* C21: every wattage the hardware-2.2 calculation returns is at least 0
\* (a negative sum of a rounded wattage and its manual offset is set to 0).
C21_AsStated == \A b \in present : \A i \in 1..4 : watt[b][i] >= 0

-----------------------------------------------------------------------------
(* Claims about the walls' targets and the reconciliation tick *)

\* C22: the target (current_speed) of a wall in manual mode lies within
\* 20..100 in every state, directly after start-up and after a switch from
\* profile mode to manual mode included.
C22_AsStated ==
    \A w \in Walls : (HasWall(w) /\ manual[w]) => speed[w] \in 20..100


\* The step in which a tick ends without an error: its tail has
\* recomputed the targets of the walls in profile mode.
TickCompletes ==
    /\ pc["tick"] # "idle" /\ pc'["tick"] = "idle"
    /\ call["tick"].stage # "err"

\* C23 as stated: the targets of the walls in profile mode are recomputed
\* before the push step of the tick, so a tick that completes without
\* error leaves the running PWM of every present board equal to the
\* targets computed in that tick.
C23_AsStated ==
    [][TickCompletes
          => \A w \in Walls :
                (HasWall(w) /\ ~manual[w])
                  => \A ch \in ChannelsOf(w) :
                        running'[BoardOf(w)][ch] = speed'[w]
      ]_vars

\* C24 as stated: when the pull of board 1 (update_powerboard_state) has
\* failed, the tick goes on to board 2 (and from there to the recomputation
\* of the targets) with the cached readings as they were.
C24_AsStated ==
    [][(/\ pc["tick"] = "pull1" /\ call["tick"].stage = "err"
        /\ pc'["tick"] # "pull1" /\ 2 \in present)
          => /\ pc'["tick"] = "pull2"
             /\ call'["tick"].b = 2
             /\ UNCHANGED <<rpm, watt>>
      ]_vars

\* C25 as stated: whenever board 2 is present the periodic tick runs, with
\* board 1 or without it: when the timer is due and the event loop is free
\* the tick can start, and wall 4 is reconciled by it.
C25_AsStated ==
    (2 \in present /\ pc["tick"] = "idle" /\ loop = "free"
     /\ budget.ticks > 0)
        => ENABLED TickStart

\* C26 as stated: the lookup of a temperature for a demand computation
\* changes no stored reading, neither of a sensor nor of a drive monitor
\* (so that every computation of a tick sees the same readings).
C26_AsStated ==
    [][Looks => UNCHANGED <<sensor_groups, drive_monitors>>]_vars

\* C27 as stated: no task waits for the link semaphore of a board while it
\* holds the update semaphore of that board.
C27_AsStated ==
    \A r \in RequestTasks \cup {"auto"} :
        ~(/\ pc[r] = "wait"
          /\ call[r].method = "acquire" /\ call[r].stage = "enter"
          /\ sem[call[r].b] = 0
          /\ updSem[call[r].b] = 0)

-----------------------------------------------------------------------------
(* Claims about the construction of a board and the demand of a profile *)

\* The percentage of the value a pin reports, by round(v / 255 * 100), the
\* value taken from 255 first for firmware 2.3.
PinPercent(fw, v) ==
    LET x == IF fw = "2.3" THEN 255 - v ELSE v
        k == (100 * x) \div 255
    IN  IF 2 * (100 * x - 255 * k) >= 255 THEN k + 1 ELSE k
\* The rows (pin 3, pin 1, pin 2) of the reply to P: the constructor read.
RowsOfReply ==
    <<PinPercent(firmware[1], hist[1][3]), PinPercent(firmware[1], hist[1][1]),
      PinPercent(firmware[1], hist[1][2])>>
\* The order in which the constructor writes its commands.
ConstructOrder ==
    {<<"", "V">>, <<"V", "P">>, <<"P", "U">>, <<"U", "T">>, <<"T", "W">>}

\* C28: constructing a Powerboard writes V:, then P:, then U: before any T:
\* or W:; the U: carries the triple decoded from the reply to P: (pins
\* reordered (p3, p1, p2) into rows, the firmware's inversions applied), and
\* once the constructor has returned the saved, the running and the current
\* PWM triple all equal that triple.
C28_Construction ==
    [][/\ wire'[1] # wire[1] =>
            /\ <<wire[1].cmd, wire'[1].cmd>> \in ConstructOrder
            /\ wire'[1].cmd = "U" =>
                 /\ call["t1"].args = RowsOfReply
                 /\ wire'[1].params =
                      (IF firmware[1] = "2.2"
                       THEN <<100 - RowsOfReply[2], 100 - RowsOfReply[3],
                              100 - RowsOfReply[1]>>
                       ELSE <<RowsOfReply[2], RowsOfReply[3], RowsOfReply[1]>>)
       /\ Constructed("t1")' =>
            /\ saved'[1] = RowsOfReply'
            /\ running'[1] = RowsOfReply'
            /\ current'[1] = RowsOfReply'
      ]_vars
\* A board of firmware 2.3 constructed over the reply 26,255,77.
C28_Witness ==
    /\ Constructed("t1") /\ firmware[1] = "2.3" /\ hist = <<(<<26, 255, 77>>)>>
    /\ saved[1] = <<70, 90, 0>> /\ running[1] = <<70, 90, 0>>
    /\ current[1] = <<70, 90, 0>>

\* C29: FanControlProfile.get_current_speed and
\* FanControlService._calculate_max_speed_from_profile compute the same
\* demand for the same profile and the same readings, the safe default 50
\* where no curve has a readable sensor.
C29_AsStated ==
    demand # <<>> =>
        /\ demand[1] = demand[2]
        /\ ReadableCurves = {} => demand[2] = SafeDefault

\* FanControlService.set_fan_speed has returned: both boards acknowledged
\* their F: (Powerboard.set_fan_speed stored its arguments as the current
\* and the saved PWM).
SetSucceeded ==
    /\ pc["set"] = "idle" /\ budget.sets < MaxSets
    /\ \E a \in SetArgs :
          /\ current[1] = a[1] /\ saved[1] = a[1]
          /\ current[2] = Aux3(a) /\ saved[2] = Aux3(a)

\* C30 as stated: after FanControlService.set_fan_speed has succeeded, a
\* later tick during which no user changes a wall does not push a U: that
\* moves a board's active PWM away from the values just set.
C30_AsStated ==
    [][\A b \in Boards :
          (SetSucceeded /\ TickCompares(b))
             => (TickPushes(b) => call'["tick"].args = saved[b])
      ]_vars
=============================================================================
